---- MODULE Spec2Model ----
(***************************************************************************)
(* Verification model of the SandboxTown v2 rule engine                    *)
(* (sandboxtown_v2/core): threshold validation, the hysteresis transition  *)
(* function next_agent_status, the single-agent driver run_simulation, the *)
(* contagion pass apply_contagion, the environment policy, the multi-agent *)
(* driver run_multi_agent_simulation and the display-mode gate             *)
(* enforce_mode; and of the name-keyed factories of src/src (make_policy,  *)
(* get_profile, get_policy).                                               *)
(*                                                                         *)
(* Stability values and thresholds are floats in the source.  The engine   *)
(* only compares them, so they are modelled as integers in thousandths:    *)
(* 1.0 is One, 0.30 is 300, the "HELP disabled" sentinel -1.0 is -One.     *)
(* The contagion pass also multiplies and subtracts; its arithmetic is     *)
(* modelled exactly in thousandths (no float rounding).                    *)
(***************************************************************************)
EXTENDS Integers, Sequences, FiniteSets, TLC

\* ---------------------------------------------------------------- bounds
\* number of equal intervals the unit range [0,1] is cut into
NumLevels == 3
\* longest sample sequence fed to run_simulation
MaxSteps == 2
\* number of agents of a multi-agent run; longest list given to
\* apply_contagion
NumAgents == 2

\* ------------------------------------------------------- program values
\* the float 1.0, in thousandths
One == 1000

\* AgentState (agent_state.py)
STABLE == "Stable"
LOADED == "Loaded"
HELP_SEEKING == "Help-Seeking"
REST == "Rest"
RECOVERED == "Recovered"
AgentState == {STABLE, LOADED, HELP_SEEKING, REST, RECOVERED}

\* TransitionEvent (stability_rules.py)
ENTER_HELP == "ENTER_HELP"
EXIT_HELP == "EXIT_HELP"
ENTER_REST == "ENTER_REST"
EXIT_REST == "EXIT_REST"
RECOVERED_TO_STABLE == "RECOVERED_TO_STABLE"
ENV_DOWNSHIFT == "ENV_DOWNSHIFT"
ENV_UPSHIFT == "ENV_UPSHIFT"
TransitionEvent == {ENTER_HELP, EXIT_HELP, ENTER_REST, EXIT_REST,
                    RECOVERED_TO_STABLE, ENV_DOWNSHIFT, ENV_UPSHIFT}

\* Python's None
None == "None"

\* ------------------------------------------------------ input universes
\* the sampled points of [0,1]: 0, 1/NumLevels, ..., 1
Levels == {(k * One) \div NumLevels : k \in 0..NumLevels}
\* one sample below 0.0 and one above 1.0 (samples are not validated)
BelowZero == 0 - (One \div NumLevels)
AboveOne == One + (One \div NumLevels)
Samples == Levels \cup {BelowZero, AboveOne}
\* candidate threshold fields: the sampled points and the -1.0 sentinel
ThresholdValues == Levels \cup {0 - One}

\* AgentStatus(state, stability)
AgentStatus(s, x) == [state |-> s, stability |-> x]

\* TransitionResult(next_status, events)
TransitionResult(st, evs) == [next_status |-> st, events |-> evs]

\* TransitionResult.event: the first event, or None
Event(r) == IF r.events # <<>> THEN r.events[1] ELSE None

\* Thresholds.__post_init__ with HELP disabled by either negative value
ThresholdsValid_one_negative_disables(t) ==
    LET help_disabled == (t.help_enter < 0 \/ t.help_exit < 0) IN
    /\ (0 <= t.visual_min_stable /\ t.visual_min_stable <= One)
    /\ (0 <= t.rest_enter /\ t.rest_enter <= One
        /\ 0 <= t.rest_exit /\ t.rest_exit <= One)
    /\ t.rest_enter < t.rest_exit
    /\ (~help_disabled =>
          /\ (0 <= t.help_enter /\ t.help_enter <= One
              /\ 0 <= t.help_exit /\ t.help_exit <= One)
          /\ t.help_enter < t.help_exit)

\* Thresholds.__post_init__: TRUE iff construction does not raise
\* (every field of the model is numeric, so the TypeError loop passes)
ThresholdsValid(t) ==
    LET help_disabled == (t.help_enter < 0 /\ t.help_exit < 0) IN
    /\ (0 <= t.visual_min_stable /\ t.visual_min_stable <= One)
    /\ (0 <= t.rest_enter /\ t.rest_enter <= One
        /\ 0 <= t.rest_exit /\ t.rest_exit <= One)
    /\ t.rest_enter < t.rest_exit
    /\ (~help_disabled =>
          /\ (0 <= t.help_enter /\ t.help_enter <= One
              /\ 0 <= t.help_exit /\ t.help_exit <= One)
          /\ t.help_enter < t.help_exit)

\* every Thresholds value that can be constructed over ThresholdValues
Thresholds ==
    {t \in [help_enter : ThresholdValues, help_exit : ThresholdValues,
            rest_enter : ThresholdValues, rest_exit : ThresholdValues,
            visual_min_stable : ThresholdValues] : ThresholdsValid(t)}

_help_enabled(th) == ~(th.help_enter < 0 /\ th.help_exit < 0)

_rest_enabled(th) == TRUE

\* ---- variants of next_agent_status, each with one rule changed ----

\* next_agent_status with REST entry tested before the HELP rules
next_agent_status_rest_preempts_help(a, th) ==
    LET s == a.state
        x == a.stability
        help_on == _help_enabled(th)
        rest_on == _rest_enabled(th)
    IN
    IF s # REST /\ rest_on /\ x < th.rest_enter THEN
        TransitionResult(AgentStatus(REST, x), <<ENTER_REST>>)
    ELSE IF s = HELP_SEEKING /\ help_on THEN
        IF x >= th.help_exit
        THEN TransitionResult(AgentStatus(RECOVERED, x), <<EXIT_HELP>>)
        ELSE TransitionResult(AgentStatus(HELP_SEEKING, x), <<>>)
    ELSE IF help_on /\ x <= th.help_enter THEN
        TransitionResult(AgentStatus(HELP_SEEKING, x), <<ENTER_HELP>>)
    ELSE IF s = REST /\ rest_on THEN
        IF x >= th.rest_exit
        THEN TransitionResult(AgentStatus(RECOVERED, x), <<EXIT_REST>>)
        ELSE TransitionResult(AgentStatus(REST, x), <<>>)
    ELSE IF rest_on /\ x < th.rest_enter THEN
        TransitionResult(AgentStatus(REST, x), <<ENTER_REST>>)
    ELSE IF s = RECOVERED /\ x >= th.visual_min_stable THEN
        TransitionResult(AgentStatus(STABLE, x), <<RECOVERED_TO_STABLE>>)
    ELSE IF s = LOADED /\ x >= th.visual_min_stable THEN
        TransitionResult(AgentStatus(STABLE, x), <<>>)
    ELSE TransitionResult(AgentStatus(s, x), <<>>)

\* next_agent_status with HELP entry on x < help_enter
next_agent_status_help_enter_strict(a, th) ==
    LET s == a.state
        x == a.stability
        help_on == _help_enabled(th)
        rest_on == _rest_enabled(th)
    IN
    IF s = HELP_SEEKING /\ help_on THEN
        IF x >= th.help_exit
        THEN TransitionResult(AgentStatus(RECOVERED, x), <<EXIT_HELP>>)
        ELSE TransitionResult(AgentStatus(HELP_SEEKING, x), <<>>)
    ELSE IF help_on /\ x < th.help_enter THEN
        TransitionResult(AgentStatus(HELP_SEEKING, x), <<ENTER_HELP>>)
    ELSE IF s = REST /\ rest_on THEN
        IF x >= th.rest_exit
        THEN TransitionResult(AgentStatus(RECOVERED, x), <<EXIT_REST>>)
        ELSE TransitionResult(AgentStatus(REST, x), <<>>)
    ELSE IF rest_on /\ x < th.rest_enter THEN
        TransitionResult(AgentStatus(REST, x), <<ENTER_REST>>)
    ELSE IF s = RECOVERED /\ x >= th.visual_min_stable THEN
        TransitionResult(AgentStatus(STABLE, x), <<RECOVERED_TO_STABLE>>)
    ELSE IF s = LOADED /\ x >= th.visual_min_stable THEN
        TransitionResult(AgentStatus(STABLE, x), <<>>)
    ELSE TransitionResult(AgentStatus(s, x), <<>>)

\* next_agent_status with REST exit on x > rest_exit
next_agent_status_rest_exit_strict(a, th) ==
    LET s == a.state
        x == a.stability
        help_on == _help_enabled(th)
        rest_on == _rest_enabled(th)
    IN
    IF s = HELP_SEEKING /\ help_on THEN
        IF x >= th.help_exit
        THEN TransitionResult(AgentStatus(RECOVERED, x), <<EXIT_HELP>>)
        ELSE TransitionResult(AgentStatus(HELP_SEEKING, x), <<>>)
    ELSE IF help_on /\ x <= th.help_enter THEN
        TransitionResult(AgentStatus(HELP_SEEKING, x), <<ENTER_HELP>>)
    ELSE IF s = REST /\ rest_on THEN
        IF x > th.rest_exit
        THEN TransitionResult(AgentStatus(RECOVERED, x), <<EXIT_REST>>)
        ELSE TransitionResult(AgentStatus(REST, x), <<>>)
    ELSE IF rest_on /\ x < th.rest_enter THEN
        TransitionResult(AgentStatus(REST, x), <<ENTER_REST>>)
    ELSE IF s = RECOVERED /\ x >= th.visual_min_stable THEN
        TransitionResult(AgentStatus(STABLE, x), <<RECOVERED_TO_STABLE>>)
    ELSE IF s = LOADED /\ x >= th.visual_min_stable THEN
        TransitionResult(AgentStatus(STABLE, x), <<>>)
    ELSE TransitionResult(AgentStatus(s, x), <<>>)

\* next_agent_status with REST entry on x <= rest_enter
next_agent_status_rest_enter_inclusive(a, th) ==
    LET s == a.state
        x == a.stability
        help_on == _help_enabled(th)
        rest_on == _rest_enabled(th)
    IN
    IF s = HELP_SEEKING /\ help_on THEN
        IF x >= th.help_exit
        THEN TransitionResult(AgentStatus(RECOVERED, x), <<EXIT_HELP>>)
        ELSE TransitionResult(AgentStatus(HELP_SEEKING, x), <<>>)
    ELSE IF help_on /\ x <= th.help_enter THEN
        TransitionResult(AgentStatus(HELP_SEEKING, x), <<ENTER_HELP>>)
    ELSE IF s = REST /\ rest_on THEN
        IF x >= th.rest_exit
        THEN TransitionResult(AgentStatus(RECOVERED, x), <<EXIT_REST>>)
        ELSE TransitionResult(AgentStatus(REST, x), <<>>)
    ELSE IF rest_on /\ x <= th.rest_enter THEN
        TransitionResult(AgentStatus(REST, x), <<ENTER_REST>>)
    ELSE IF s = RECOVERED /\ x >= th.visual_min_stable THEN
        TransitionResult(AgentStatus(STABLE, x), <<RECOVERED_TO_STABLE>>)
    ELSE IF s = LOADED /\ x >= th.visual_min_stable THEN
        TransitionResult(AgentStatus(STABLE, x), <<>>)
    ELSE TransitionResult(AgentStatus(s, x), <<>>)

\* next_agent_status whose HELP exit emits EXIT_HELP but keeps the state
next_agent_status_exit_keeps_state(a, th) ==
    LET s == a.state
        x == a.stability
        help_on == _help_enabled(th)
        rest_on == _rest_enabled(th)
    IN
    IF s = HELP_SEEKING /\ help_on THEN
        IF x >= th.help_exit
        THEN TransitionResult(AgentStatus(HELP_SEEKING, x), <<EXIT_HELP>>)
        ELSE TransitionResult(AgentStatus(HELP_SEEKING, x), <<>>)
    ELSE IF help_on /\ x <= th.help_enter THEN
        TransitionResult(AgentStatus(HELP_SEEKING, x), <<ENTER_HELP>>)
    ELSE IF s = REST /\ rest_on THEN
        IF x >= th.rest_exit
        THEN TransitionResult(AgentStatus(RECOVERED, x), <<EXIT_REST>>)
        ELSE TransitionResult(AgentStatus(REST, x), <<>>)
    ELSE IF rest_on /\ x < th.rest_enter THEN
        TransitionResult(AgentStatus(REST, x), <<ENTER_REST>>)
    ELSE IF s = RECOVERED /\ x >= th.visual_min_stable THEN
        TransitionResult(AgentStatus(STABLE, x), <<RECOVERED_TO_STABLE>>)
    ELSE IF s = LOADED /\ x >= th.visual_min_stable THEN
        TransitionResult(AgentStatus(STABLE, x), <<>>)
    ELSE TransitionResult(AgentStatus(s, x), <<>>)

\* next_agent_status with the REST entry rule tested before REST stickiness
next_agent_status_rest_not_sticky(a, th) ==
    LET s == a.state
        x == a.stability
        help_on == _help_enabled(th)
        rest_on == _rest_enabled(th)
    IN
    IF s = HELP_SEEKING /\ help_on THEN
        IF x >= th.help_exit
        THEN TransitionResult(AgentStatus(RECOVERED, x), <<EXIT_HELP>>)
        ELSE TransitionResult(AgentStatus(HELP_SEEKING, x), <<>>)
    ELSE IF help_on /\ x <= th.help_enter THEN
        TransitionResult(AgentStatus(HELP_SEEKING, x), <<ENTER_HELP>>)
    ELSE IF rest_on /\ x < th.rest_enter THEN
        TransitionResult(AgentStatus(REST, x), <<ENTER_REST>>)
    ELSE IF s = REST /\ rest_on THEN
        IF x >= th.rest_exit
        THEN TransitionResult(AgentStatus(RECOVERED, x), <<EXIT_REST>>)
        ELSE TransitionResult(AgentStatus(REST, x), <<>>)
    ELSE IF rest_on /\ x < th.rest_enter THEN
        TransitionResult(AgentStatus(REST, x), <<ENTER_REST>>)
    ELSE IF s = RECOVERED /\ x >= th.visual_min_stable THEN
        TransitionResult(AgentStatus(STABLE, x), <<RECOVERED_TO_STABLE>>)
    ELSE IF s = LOADED /\ x >= th.visual_min_stable THEN
        TransitionResult(AgentStatus(STABLE, x), <<>>)
    ELSE TransitionResult(AgentStatus(s, x), <<>>)

\* next_agent_status with a middle-band rule that moves to Loaded
next_agent_status_with_loaded_rule(a, th) ==
    LET s == a.state
        x == a.stability
        help_on == _help_enabled(th)
        rest_on == _rest_enabled(th)
    IN
    IF s = HELP_SEEKING /\ help_on THEN
        IF x >= th.help_exit
        THEN TransitionResult(AgentStatus(RECOVERED, x), <<EXIT_HELP>>)
        ELSE TransitionResult(AgentStatus(HELP_SEEKING, x), <<>>)
    ELSE IF help_on /\ x <= th.help_enter THEN
        TransitionResult(AgentStatus(HELP_SEEKING, x), <<ENTER_HELP>>)
    ELSE IF s = REST /\ rest_on THEN
        IF x >= th.rest_exit
        THEN TransitionResult(AgentStatus(RECOVERED, x), <<EXIT_REST>>)
        ELSE TransitionResult(AgentStatus(REST, x), <<>>)
    ELSE IF rest_on /\ x < th.rest_enter THEN
        TransitionResult(AgentStatus(REST, x), <<ENTER_REST>>)
    ELSE IF s = RECOVERED /\ x >= th.visual_min_stable THEN
        TransitionResult(AgentStatus(STABLE, x), <<RECOVERED_TO_STABLE>>)
    ELSE IF s = LOADED /\ x >= th.visual_min_stable THEN
        TransitionResult(AgentStatus(STABLE, x), <<>>)
    ELSE IF s # LOADED /\ x < th.visual_min_stable THEN
        TransitionResult(AgentStatus(LOADED, x), <<"LOADED">>)
    ELSE TransitionResult(AgentStatus(s, x), <<>>)

\* next_agent_status with the Recovered gate on x > visual_min_stable
next_agent_status_recovered_gate_strict(a, th) ==
    LET s == a.state
        x == a.stability
        help_on == _help_enabled(th)
        rest_on == _rest_enabled(th)
    IN
    IF s = HELP_SEEKING /\ help_on THEN
        IF x >= th.help_exit
        THEN TransitionResult(AgentStatus(RECOVERED, x), <<EXIT_HELP>>)
        ELSE TransitionResult(AgentStatus(HELP_SEEKING, x), <<>>)
    ELSE IF help_on /\ x <= th.help_enter THEN
        TransitionResult(AgentStatus(HELP_SEEKING, x), <<ENTER_HELP>>)
    ELSE IF s = REST /\ rest_on THEN
        IF x >= th.rest_exit
        THEN TransitionResult(AgentStatus(RECOVERED, x), <<EXIT_REST>>)
        ELSE TransitionResult(AgentStatus(REST, x), <<>>)
    ELSE IF rest_on /\ x < th.rest_enter THEN
        TransitionResult(AgentStatus(REST, x), <<ENTER_REST>>)
    ELSE IF s = RECOVERED /\ x > th.visual_min_stable THEN
        TransitionResult(AgentStatus(STABLE, x), <<RECOVERED_TO_STABLE>>)
    ELSE IF s = LOADED /\ x >= th.visual_min_stable THEN
        TransitionResult(AgentStatus(STABLE, x), <<>>)
    ELSE TransitionResult(AgentStatus(s, x), <<>>)

\* next_agent_status whose fall-through case returns no status
next_agent_status_no_final_return(a, th) ==
    LET s == a.state
        x == a.stability
        help_on == _help_enabled(th)
        rest_on == _rest_enabled(th)
    IN
    IF s = HELP_SEEKING /\ help_on THEN
        IF x >= th.help_exit
        THEN TransitionResult(AgentStatus(RECOVERED, x), <<EXIT_HELP>>)
        ELSE TransitionResult(AgentStatus(HELP_SEEKING, x), <<>>)
    ELSE IF help_on /\ x <= th.help_enter THEN
        TransitionResult(AgentStatus(HELP_SEEKING, x), <<ENTER_HELP>>)
    ELSE IF s = REST /\ rest_on THEN
        IF x >= th.rest_exit
        THEN TransitionResult(AgentStatus(RECOVERED, x), <<EXIT_REST>>)
        ELSE TransitionResult(AgentStatus(REST, x), <<>>)
    ELSE IF rest_on /\ x < th.rest_enter THEN
        TransitionResult(AgentStatus(REST, x), <<ENTER_REST>>)
    ELSE IF s = RECOVERED /\ x >= th.visual_min_stable THEN
        TransitionResult(AgentStatus(STABLE, x), <<RECOVERED_TO_STABLE>>)
    ELSE IF s = LOADED /\ x >= th.visual_min_stable THEN
        TransitionResult(AgentStatus(STABLE, x), <<>>)
    ELSE TransitionResult(AgentStatus(None, x), <<>>)

\* next_agent_status with the Recovered -> Stable gate emitting no event
next_agent_status_silent_recovery(a, th) ==
    LET s == a.state
        x == a.stability
        help_on == _help_enabled(th)
        rest_on == _rest_enabled(th)
    IN
    IF s = HELP_SEEKING /\ help_on THEN
        IF x >= th.help_exit
        THEN TransitionResult(AgentStatus(RECOVERED, x), <<EXIT_HELP>>)
        ELSE TransitionResult(AgentStatus(HELP_SEEKING, x), <<>>)
    ELSE IF help_on /\ x <= th.help_enter THEN
        TransitionResult(AgentStatus(HELP_SEEKING, x), <<ENTER_HELP>>)
    ELSE IF s = REST /\ rest_on THEN
        IF x >= th.rest_exit
        THEN TransitionResult(AgentStatus(RECOVERED, x), <<EXIT_REST>>)
        ELSE TransitionResult(AgentStatus(REST, x), <<>>)
    ELSE IF rest_on /\ x < th.rest_enter THEN
        TransitionResult(AgentStatus(REST, x), <<ENTER_REST>>)
    ELSE IF s = RECOVERED /\ x >= th.visual_min_stable THEN
        TransitionResult(AgentStatus(STABLE, x), <<>>)
    ELSE IF s = LOADED /\ x >= th.visual_min_stable THEN
        TransitionResult(AgentStatus(STABLE, x), <<>>)
    ELSE TransitionResult(AgentStatus(s, x), <<>>)

\* next_agent_status with HELP left at help_enter instead of help_exit
next_agent_status_no_help_hysteresis(a, th) ==
    LET s == a.state
        x == a.stability
        help_on == _help_enabled(th)
        rest_on == _rest_enabled(th)
    IN
    IF s = HELP_SEEKING /\ help_on THEN
        IF x >= th.help_enter
        THEN TransitionResult(AgentStatus(RECOVERED, x), <<EXIT_HELP>>)
        ELSE TransitionResult(AgentStatus(HELP_SEEKING, x), <<>>)
    ELSE IF help_on /\ x <= th.help_enter THEN
        TransitionResult(AgentStatus(HELP_SEEKING, x), <<ENTER_HELP>>)
    ELSE IF s = REST /\ rest_on THEN
        IF x >= th.rest_exit
        THEN TransitionResult(AgentStatus(RECOVERED, x), <<EXIT_REST>>)
        ELSE TransitionResult(AgentStatus(REST, x), <<>>)
    ELSE IF rest_on /\ x < th.rest_enter THEN
        TransitionResult(AgentStatus(REST, x), <<ENTER_REST>>)
    ELSE IF s = RECOVERED /\ x >= th.visual_min_stable THEN
        TransitionResult(AgentStatus(STABLE, x), <<RECOVERED_TO_STABLE>>)
    ELSE IF s = LOADED /\ x >= th.visual_min_stable THEN
        TransitionResult(AgentStatus(STABLE, x), <<>>)
    ELSE TransitionResult(AgentStatus(s, x), <<>>)

\* next_agent_status with HELP entry tested even when HELP is disabled
next_agent_status_help_entry_unguarded(a, th) ==
    LET s == a.state
        x == a.stability
        help_on == _help_enabled(th)
        rest_on == _rest_enabled(th)
    IN
    IF s = HELP_SEEKING /\ help_on THEN
        IF x >= th.help_exit
        THEN TransitionResult(AgentStatus(RECOVERED, x), <<EXIT_HELP>>)
        ELSE TransitionResult(AgentStatus(HELP_SEEKING, x), <<>>)
    ELSE IF x <= th.help_enter THEN
        TransitionResult(AgentStatus(HELP_SEEKING, x), <<ENTER_HELP>>)
    ELSE IF s = REST /\ rest_on THEN
        IF x >= th.rest_exit
        THEN TransitionResult(AgentStatus(RECOVERED, x), <<EXIT_REST>>)
        ELSE TransitionResult(AgentStatus(REST, x), <<>>)
    ELSE IF rest_on /\ x < th.rest_enter THEN
        TransitionResult(AgentStatus(REST, x), <<ENTER_REST>>)
    ELSE IF s = RECOVERED /\ x >= th.visual_min_stable THEN
        TransitionResult(AgentStatus(STABLE, x), <<RECOVERED_TO_STABLE>>)
    ELSE IF s = LOADED /\ x >= th.visual_min_stable THEN
        TransitionResult(AgentStatus(STABLE, x), <<>>)
    ELSE TransitionResult(AgentStatus(s, x), <<>>)

\* next_agent_status: first matching rule wins
next_agent_status(a, th) ==
    LET s == a.state
        x == a.stability
        help_on == _help_enabled(th)
        rest_on == _rest_enabled(th)
    IN
    IF s = HELP_SEEKING /\ help_on THEN
        IF x >= th.help_exit
        THEN TransitionResult(AgentStatus(RECOVERED, x), <<EXIT_HELP>>)
        ELSE TransitionResult(AgentStatus(HELP_SEEKING, x), <<>>)
    ELSE IF help_on /\ x <= th.help_enter THEN
        TransitionResult(AgentStatus(HELP_SEEKING, x), <<ENTER_HELP>>)
    ELSE IF s = REST /\ rest_on THEN
        IF x >= th.rest_exit
        THEN TransitionResult(AgentStatus(RECOVERED, x), <<EXIT_REST>>)
        ELSE TransitionResult(AgentStatus(REST, x), <<>>)
    ELSE IF rest_on /\ x < th.rest_enter THEN
        TransitionResult(AgentStatus(REST, x), <<ENTER_REST>>)
    ELSE IF s = RECOVERED /\ x >= th.visual_min_stable THEN
        TransitionResult(AgentStatus(STABLE, x), <<RECOVERED_TO_STABLE>>)
    ELSE IF s = LOADED /\ x >= th.visual_min_stable THEN
        TransitionResult(AgentStatus(STABLE, x), <<>>)
    ELSE TransitionResult(AgentStatus(s, x), <<>>)

\* ------------------------------------------------------------ environment
\* EnvironmentState (environment_state.py)
CALM == "Calm"
ACTIVE == "Active"
DENSE == "Dense"
EnvironmentState == {CALM, ACTIVE, DENSE}

\* stability_rules.environment_downshift_if_needed with the environment
\* left Dense next to the event
environment_downshift_keeps_env(env, any_agent_unstable) ==
    IF env = DENSE /\ any_agent_unstable
    THEN <<DENSE, ENV_DOWNSHIFT>>
    ELSE <<env, None>>

\* stability_rules.environment_downshift_if_needed
environment_downshift_if_needed(env, any_agent_unstable) ==
    IF env = DENSE /\ any_agent_unstable
    THEN <<CALM, ENV_DOWNSHIFT>>
    ELSE <<env, None>>

\* multi_agent_simulation.environment_upshift_if_needed that leaves a Calm
\* environment alone
environment_upshift_never(env, all_agents_stable) ==
    <<env, None>>

\* multi_agent_simulation.environment_upshift_if_needed firing from every
\* environment that is not Dense
environment_upshift_from_active(env, all_agents_stable) ==
    IF all_agents_stable /\ env # DENSE
    THEN <<DENSE, ENV_UPSHIFT>>
    ELSE <<env, None>>

\* multi_agent_simulation.environment_upshift_if_needed
environment_upshift_if_needed(env, all_agents_stable) ==
    IF all_agents_stable /\ env = CALM
    THEN <<DENSE, ENV_UPSHIFT>>
    ELSE <<env, None>>

\* stability_rules.is_unstable_state
is_unstable_state(state) == state # STABLE

\* stability_rules.environment_upshift_if_needed
environment_upshift_if_needed_rules(env, all_agents_stable) ==
    IF env = CALM /\ all_agents_stable
    THEN <<DENSE, ENV_UPSHIFT>>
    ELSE <<env, None>>

\* multi_agent_simulation._is_unstable counting HelpSeeking only
_is_unstable_help_only(state) == state \in {HELP_SEEKING}

\* multi_agent_simulation._is_unstable
_is_unstable(state) == state \in {HELP_SEEKING, REST}

\* -------------------------------------------------------------- contagion
\* contagion.ContagionConfig; delta, max_total_delta and the two scales are
\* in thousandths
ContagionConfig(en, d, mx, ds, cs, src, stable_only) ==
    [enabled |-> en, delta |-> d, max_total_delta |-> mx,
     dense_scale |-> ds, calm_scale |-> cs,
     source_states |-> src, only_affects_stable |-> stable_only]

\* ContagionConfig() with the dataclass defaults
DefaultContagion ==
    ContagionConfig(TRUE, 50, 300, One, One \div 2, {HELP_SEEKING, REST}, FALSE)

\* contagion._clamp01
_clamp01(x) == IF x < 0 THEN 0 ELSE IF x > One THEN One ELSE x

\* a call that returned the value v
Returned(v) == [raises |-> None, value |-> v]
\* a call that raised the exception e and returned nothing
Raised(e) == [raises |-> e]

\* the number of positions of the list states holding a member of src
CountIn(states, src) == Cardinality({i \in DOMAIN states : states[i] \in src})

\* zip(raw, states) stops at the shorter list
ZipLen(raw, states) == IF Len(raw) < Len(states) THEN Len(raw) ELSE Len(states)

\* contagion.apply_contagion without the zero-source early return
apply_contagion_no_early_return(raw_stabilities, current_states, env, cfg) ==
    IF ~cfg.enabled THEN Returned(raw_stabilities)
    ELSE IF Len(raw_stabilities) # Len(current_states) THEN Raised("ValueError")
    ELSE
      LET num_sources == CountIn(current_states, cfg.source_states) IN
      IF FALSE THEN Returned(raw_stabilities)
      ELSE
        LET env_scale == IF env = DENSE THEN cfg.dense_scale ELSE cfg.calm_scale
            product == (cfg.delta * num_sources * env_scale) \div One
            total_influence == IF product > cfg.max_total_delta
                               THEN cfg.max_total_delta ELSE product
        IN Returned(
             [i \in 1..ZipLen(raw_stabilities, current_states) |->
                IF current_states[i] \in cfg.source_states
                THEN _clamp01(raw_stabilities[i])
                ELSE IF cfg.only_affects_stable /\ current_states[i] # STABLE
                THEN _clamp01(raw_stabilities[i])
                ELSE _clamp01(raw_stabilities[i] - total_influence)])

\* contagion.apply_contagion with the reduced value left unclamped
apply_contagion_unclamped_subtraction(raw_stabilities, current_states, env, cfg) ==
    IF ~cfg.enabled THEN Returned(raw_stabilities)
    ELSE IF Len(raw_stabilities) # Len(current_states) THEN Raised("ValueError")
    ELSE
      LET num_sources == CountIn(current_states, cfg.source_states) IN
      IF num_sources = 0 THEN Returned(raw_stabilities)
      ELSE
        LET env_scale == IF env = DENSE THEN cfg.dense_scale ELSE cfg.calm_scale
            product == (cfg.delta * num_sources * env_scale) \div One
            total_influence == IF product > cfg.max_total_delta
                               THEN cfg.max_total_delta ELSE product
        IN Returned(
             [i \in 1..ZipLen(raw_stabilities, current_states) |->
                IF current_states[i] \in cfg.source_states
                THEN _clamp01(raw_stabilities[i])
                ELSE IF cfg.only_affects_stable /\ current_states[i] # STABLE
                THEN _clamp01(raw_stabilities[i])
                ELSE raw_stabilities[i] - total_influence])

\* contagion.apply_contagion with the dense scale used outside Calm
apply_contagion_active_uses_dense_scale(raw_stabilities, current_states, env, cfg) ==
    IF ~cfg.enabled THEN Returned(raw_stabilities)
    ELSE IF Len(raw_stabilities) # Len(current_states) THEN Raised("ValueError")
    ELSE
      LET num_sources == CountIn(current_states, cfg.source_states) IN
      IF num_sources = 0 THEN Returned(raw_stabilities)
      ELSE
        LET env_scale == IF env # CALM THEN cfg.dense_scale ELSE cfg.calm_scale
            product == (cfg.delta * num_sources * env_scale) \div One
            total_influence == IF product > cfg.max_total_delta
                               THEN cfg.max_total_delta ELSE product
        IN Returned(
             [i \in 1..ZipLen(raw_stabilities, current_states) |->
                IF current_states[i] \in cfg.source_states
                THEN _clamp01(raw_stabilities[i])
                ELSE IF cfg.only_affects_stable /\ current_states[i] # STABLE
                THEN _clamp01(raw_stabilities[i])
                ELSE _clamp01(raw_stabilities[i] - total_influence)])

\* contagion.apply_contagion with source agents reduced like the others
apply_contagion_sources_reduced(raw_stabilities, current_states, env, cfg) ==
    IF ~cfg.enabled THEN Returned(raw_stabilities)
    ELSE IF Len(raw_stabilities) # Len(current_states) THEN Raised("ValueError")
    ELSE
      LET num_sources == CountIn(current_states, cfg.source_states) IN
      IF num_sources = 0 THEN Returned(raw_stabilities)
      ELSE
        LET env_scale == IF env = DENSE THEN cfg.dense_scale ELSE cfg.calm_scale
            product == (cfg.delta * num_sources * env_scale) \div One
            total_influence == IF product > cfg.max_total_delta
                               THEN cfg.max_total_delta ELSE product
        IN Returned(
             [i \in 1..ZipLen(raw_stabilities, current_states) |->
                IF current_states[i] \in cfg.source_states
                THEN _clamp01(raw_stabilities[i] - total_influence)
                ELSE IF cfg.only_affects_stable /\ current_states[i] # STABLE
                THEN _clamp01(raw_stabilities[i])
                ELSE _clamp01(raw_stabilities[i] - total_influence)])

\* contagion.apply_contagion with only_affects_stable ignored
apply_contagion_ignores_stable_only(raw_stabilities, current_states, env, cfg) ==
    IF ~cfg.enabled THEN Returned(raw_stabilities)
    ELSE IF Len(raw_stabilities) # Len(current_states) THEN Raised("ValueError")
    ELSE
      LET num_sources == CountIn(current_states, cfg.source_states) IN
      IF num_sources = 0 THEN Returned(raw_stabilities)
      ELSE
        LET env_scale == IF env = DENSE THEN cfg.dense_scale ELSE cfg.calm_scale
            product == (cfg.delta * num_sources * env_scale) \div One
            total_influence == IF product > cfg.max_total_delta
                               THEN cfg.max_total_delta ELSE product
        IN Returned(
             [i \in 1..ZipLen(raw_stabilities, current_states) |->
                IF current_states[i] \in cfg.source_states
                THEN _clamp01(raw_stabilities[i])
                ELSE IF FALSE /\ current_states[i] # STABLE
                THEN _clamp01(raw_stabilities[i])
                ELSE _clamp01(raw_stabilities[i] - total_influence)])

\* contagion.apply_contagion
apply_contagion(raw_stabilities, current_states, env, cfg) ==
    IF ~cfg.enabled THEN Returned(raw_stabilities)
    ELSE IF Len(raw_stabilities) # Len(current_states) THEN Raised("ValueError")
    ELSE
      LET num_sources == CountIn(current_states, cfg.source_states) IN
      IF num_sources = 0 THEN Returned(raw_stabilities)
      ELSE
        LET env_scale == IF env = DENSE THEN cfg.dense_scale ELSE cfg.calm_scale
            product == (cfg.delta * num_sources * env_scale) \div One
            total_influence == IF product > cfg.max_total_delta
                               THEN cfg.max_total_delta ELSE product
        IN Returned(
             [i \in 1..ZipLen(raw_stabilities, current_states) |->
                IF current_states[i] \in cfg.source_states
                THEN _clamp01(raw_stabilities[i])
                ELSE IF cfg.only_affects_stable /\ current_states[i] # STABLE
                THEN _clamp01(raw_stabilities[i])
                ELSE _clamp01(raw_stabilities[i] - total_influence)])

\* contagion_rules.ContagionConfig (v1); delta and multipliers in thousandths
ContagionConfigV1(en, d, dm, cm, lo, hi) ==
    [enabled |-> en, delta |-> d, dense_multiplier |-> dm,
     calm_multiplier |-> cm, clamp_min |-> lo, clamp_max |-> hi]

\* contagion_rules.is_unstable_state
is_unstable_state_v1(state) == state \in {HELP_SEEKING, REST}

\* contagion_rules._clamp
_clamp(x, lo, hi) == IF x < lo THEN lo ELSE IF x > hi THEN hi ELSE x

\* contagion_rules.apply_contagion (v1) with the shift multiplied by the
\* number of unstable agents
apply_contagion_v1_shift_per_source(raw_stabilities, current_states, env, cfg) ==
    IF ~cfg.enabled THEN raw_stabilities
    ELSE IF ~(\E i \in DOMAIN current_states :
                  is_unstable_state_v1(current_states[i]))
    THEN raw_stabilities
    ELSE
      LET multiplier == IF env = DENSE THEN cfg.dense_multiplier
                        ELSE cfg.calm_multiplier
          shift == ((cfg.delta * multiplier) \div One)
                     * CountIn(current_states, {HELP_SEEKING, REST})
      IN [i \in 1..ZipLen(raw_stabilities, current_states) |->
            IF is_unstable_state_v1(current_states[i])
            THEN _clamp(raw_stabilities[i], cfg.clamp_min, cfg.clamp_max)
            ELSE _clamp(raw_stabilities[i] - shift,
                        cfg.clamp_min, cfg.clamp_max)]

\* contagion_rules.apply_contagion (v1)
apply_contagion_v1(raw_stabilities, current_states, env, cfg) ==
    IF ~cfg.enabled THEN raw_stabilities
    ELSE IF ~(\E i \in DOMAIN current_states :
                  is_unstable_state_v1(current_states[i]))
    THEN raw_stabilities
    ELSE
      LET multiplier == IF env = DENSE THEN cfg.dense_multiplier
                        ELSE cfg.calm_multiplier
          shift == (cfg.delta * multiplier) \div One
      IN [i \in 1..ZipLen(raw_stabilities, current_states) |->
            IF is_unstable_state_v1(current_states[i])
            THEN _clamp(raw_stabilities[i], cfg.clamp_min, cfg.clamp_max)
            ELSE _clamp(raw_stabilities[i] - shift,
                        cfg.clamp_min, cfg.clamp_max)]

\* MultiAgentStep(agents, agent_events, environment, env_event)
MultiAgentStep(ags, evs, env, env_ev) ==
    [agents |-> ags, agent_events |-> evs, environment |-> env,
     env_event |-> env_ev]

\* the transitions of an in-place loop: agent i is evaluated on the states
\* of a list in which agents 1..i-1 already hold their new states
RECURSIVE SequentialStates(_, _, _, _, _, _)
SequentialStates(i, current_agents, current_env, raw, contagion, th) ==
    IF i = 0 THEN [j \in 1..Len(current_agents) |-> current_agents[j].state]
    ELSE
      LET seen == SequentialStates(i - 1, current_agents, current_env, raw,
                                   contagion, th)
          x == IF contagion # <<>> /\ contagion[1].enabled
               THEN apply_contagion(raw, seen, current_env,
                                    contagion[1]).value[i]
               ELSE raw[i]
          r == next_agent_status(AgentStatus(current_agents[i].state, x), th)
      IN [seen EXCEPT ![i] = r.next_status.state]

\* the TransitionResult of every agent under the in-place loop
SequentialTransitions(current_agents, current_env, raw, contagion, th) ==
    [i \in 1..Len(current_agents) |->
        LET seen == SequentialStates(i - 1, current_agents, current_env, raw,
                                     contagion, th)
            x == IF contagion # <<>> /\ contagion[1].enabled
                 THEN apply_contagion(raw, seen, current_env,
                                      contagion[1]).value[i]
                 ELSE raw[i]
        IN next_agent_status(AgentStatus(current_agents[i].state, x), th)]

\* the loop iteration with the environment policy fed the states the agents
\* held before the step
MultiAgentStepOf_env_from_old_states(current_agents, current_env, raw, contagion, th) ==
    LET n_agents == Len(current_agents)
        raw_step_stabilities == raw
        current_states == [i \in 1..n_agents |-> current_agents[i].state]
        step_stabilities ==
            IF contagion # <<>> /\ contagion[1].enabled
            THEN apply_contagion(raw_step_stabilities, current_states,
                                 current_env, contagion[1]).value
            ELSE raw_step_stabilities
        tr == [i \in 1..n_agents |->
                 next_agent_status(
                     AgentStatus(current_agents[i].state, step_stabilities[i]),
                     th)]
        next_agents == [i \in 1..n_agents |-> tr[i].next_status]
        agent_events == [i \in 1..n_agents |-> Event(tr[i])]
        any_unstable == \E i \in 1..n_agents : _is_unstable(current_agents[i].state)
        all_stable == ~any_unstable
        down == environment_downshift_if_needed(current_env, any_unstable)
        shifted == IF down[1] = current_env /\ down[2] = None
                   THEN environment_upshift_if_needed(current_env, all_stable)
                   ELSE down
    IN MultiAgentStep(next_agents, agent_events, shifted[1], shifted[2])

\* the loop iteration with agents updated in place: the contagion input of
\* agent i sees the new states of the agents before it
MultiAgentStepOf_sequential(current_agents, current_env, raw, contagion, th) ==
    LET n_agents == Len(current_agents)
        raw_step_stabilities == raw
        current_states == [i \in 1..n_agents |-> current_agents[i].state]
        tr == SequentialTransitions(current_agents, current_env, raw,
                                    contagion, th)
        next_agents == [i \in 1..n_agents |-> tr[i].next_status]
        agent_events == [i \in 1..n_agents |-> Event(tr[i])]
        any_unstable == \E i \in 1..n_agents : _is_unstable(next_agents[i].state)
        all_stable == ~any_unstable
        down == environment_downshift_if_needed(current_env, any_unstable)
        shifted == IF down[1] = current_env /\ down[2] = None
                   THEN environment_upshift_if_needed(current_env, all_stable)
                   ELSE down
    IN MultiAgentStep(next_agents, agent_events, shifted[1], shifted[2])

\* the loop iteration with every agent evaluated from the first agent's state
MultiAgentStepOf_first_agent_state(current_agents, current_env, raw, contagion, th) ==
    LET n_agents == Len(current_agents)
        raw_step_stabilities == raw
        current_states == [i \in 1..n_agents |-> current_agents[i].state]
        step_stabilities ==
            IF contagion # <<>> /\ contagion[1].enabled
            THEN apply_contagion(raw_step_stabilities, current_states,
                                 current_env, contagion[1]).value
            ELSE raw_step_stabilities
        tr == [i \in 1..n_agents |->
                 next_agent_status(
                     AgentStatus(current_agents[1].state, step_stabilities[i]),
                     th)]
        next_agents == [i \in 1..n_agents |-> tr[i].next_status]
        agent_events == [i \in 1..n_agents |-> Event(tr[i])]
        any_unstable == \E i \in 1..n_agents : _is_unstable(next_agents[i].state)
        all_stable == ~any_unstable
        down == environment_downshift_if_needed(current_env, any_unstable)
        shifted == IF down[1] = current_env /\ down[2] = None
                   THEN environment_upshift_if_needed(current_env, all_stable)
                   ELSE down
    IN MultiAgentStep(next_agents, agent_events, shifted[1], shifted[2])

\* the loop iteration with the environment downshifted on the states held
\* before the step, and contagion scaled by that environment
MultiAgentStepOf_env_before_contagion(current_agents, current_env, raw, contagion, th) ==
    LET n_agents == Len(current_agents)
        raw_step_stabilities == raw
        current_states == [i \in 1..n_agents |-> current_agents[i].state]
        was_unstable == \E i \in 1..n_agents : _is_unstable(current_states[i])
        early == environment_downshift_if_needed(current_env, was_unstable)
        step_stabilities ==
            IF contagion # <<>> /\ contagion[1].enabled
            THEN apply_contagion(raw_step_stabilities, current_states,
                                 early[1], contagion[1]).value
            ELSE raw_step_stabilities
        tr == [i \in 1..n_agents |->
                 next_agent_status(
                     AgentStatus(current_agents[i].state, step_stabilities[i]),
                     th)]
        next_agents == [i \in 1..n_agents |-> tr[i].next_status]
        agent_events == [i \in 1..n_agents |-> Event(tr[i])]
        any_unstable == \E i \in 1..n_agents : _is_unstable(next_agents[i].state)
        all_stable == ~any_unstable
        down == environment_downshift_if_needed(current_env, any_unstable)
        shifted == IF down[1] = current_env /\ down[2] = None
                   THEN environment_upshift_if_needed(current_env, all_stable)
                   ELSE down
    IN MultiAgentStep(next_agents, agent_events, shifted[1], shifted[2])

\* one iteration of run_multi_agent_simulation's loop: the step record
\* built from the current agents and environment and the raw samples raw.
\* contagion is <<>> for None and <<cfg>> for a ContagionConfig; both lists
\* have n_agents entries, so apply_contagion cannot raise here.
MultiAgentStepOf(current_agents, current_env, raw, contagion, th) ==
    LET n_agents == Len(current_agents)
        raw_step_stabilities == raw
        current_states == [i \in 1..n_agents |-> current_agents[i].state]
        step_stabilities ==
            IF contagion # <<>> /\ contagion[1].enabled
            THEN apply_contagion(raw_step_stabilities, current_states,
                                 current_env, contagion[1]).value
            ELSE raw_step_stabilities
        tr == [i \in 1..n_agents |->
                 next_agent_status(
                     AgentStatus(current_agents[i].state, step_stabilities[i]),
                     th)]
        next_agents == [i \in 1..n_agents |-> tr[i].next_status]
        agent_events == [i \in 1..n_agents |-> Event(tr[i])]
        any_unstable == \E i \in 1..n_agents : _is_unstable(next_agents[i].state)
        all_stable == ~any_unstable
        down == environment_downshift_if_needed(current_env, any_unstable)
        shifted == IF down[1] = current_env /\ down[2] = None
                   THEN environment_upshift_if_needed(current_env, all_stable)
                   ELSE down
    IN MultiAgentStep(next_agents, agent_events, shifted[1], shifted[2])

\* SimulationStep(status, events)
SimulationStep(st, evs) == [status |-> st, events |-> evs]

\* SimulationStep.event: the first event, or None
StepEvent(step) == IF step.events = <<>> THEN None ELSE step.events[1]

\* stability_rules.apply_rules: <<next statuses, env2>>.  single_in stands
\* for isinstance(agent_statuses, AgentStatus): agent_statuses is then one
\* status and one status is returned, otherwise a list and a list.
apply_rules(single_in, agent_statuses, env, th) ==
    LET current == IF single_in THEN <<agent_statuses>> ELSE agent_statuses
        any_unstable == \E n \in DOMAIN current : is_unstable_state(current[n].state)
        all_stable == \A n \in DOMAIN current : current[n].state = STABLE
        down == environment_downshift_if_needed(env, any_unstable)
        env2 == IF down[1] = env
                THEN environment_upshift_if_needed_rules(down[1], all_stable)[1]
                ELSE down[1]
        next_statuses == [n \in DOMAIN current |->
                            next_agent_status(current[n], th).next_status]
    IN IF single_in THEN <<next_statuses[1], env2>> ELSE <<next_statuses, env2>>

\* ------------------------------------------------------------ mode gate
\* mode_gate.Mode
HEADLESS == "Headless"
VISUAL == "Visual"
Mode == {HEADLESS, VISUAL}

\* the event tag of a forced exit from Visual
EXIT_VISUAL_TO_HEADLESS == "EXIT_VISUAL_TO_HEADLESS"

\* ModeResult(mode, event)
ModeResult(m, e) == [mode |-> m, event |-> e]

\* mode_gate.enforce_mode with Visual refused at stability = visual_min_stable
enforce_mode_strict_minimum(current_mode, status, th) ==
    IF current_mode = VISUAL
       /\ ~(status.state = STABLE /\ status.stability > th.visual_min_stable)
    THEN ModeResult(HEADLESS, EXIT_VISUAL_TO_HEADLESS)
    ELSE ModeResult(current_mode, None)

\* mode_gate.enforce_mode
enforce_mode(current_mode, status, th) ==
    IF current_mode = VISUAL
       /\ ~(status.state = STABLE /\ status.stability >= th.visual_min_stable)
    THEN ModeResult(HEADLESS, EXIT_VISUAL_TO_HEADLESS)
    ELSE ModeResult(current_mode, None)

\* ---------------------------------------------- Thresholds construction
\* Thresholds(help_enter, help_exit, rest_enter, rest_exit,
\* visual_min_stable) on numeric fields: the frozen value, or the ValueError
\* of __post_init__
NewThresholds(fields) ==
    IF ThresholdsValid(fields) THEN Returned(fields) ELSE Raised("ValueError")

\* ------------------------------------------------------- whole-call runs
\* run_simulation's loop over the samples still to consume
RECURSIVE SimulationLoop(_, _, _)
SimulationLoop(current, stabilities, th) ==
    IF stabilities = <<>> THEN <<>>
    ELSE
      LET sampled == AgentStatus(current.state, Head(stabilities))
          result == next_agent_status(sampled, th)
          step == SimulationStep(result.next_status,
                                 SelectSeq(result.events, LAMBDA e : e # None))
      IN <<step>> \o SimulationLoop(result.next_status, Tail(stabilities), th)

\* the loop with every sample paired with the start state instead of the
\* state the previous step ended in
RECURSIVE SimulationLoop_from_start_state(_, _, _)
SimulationLoop_from_start_state(current, stabilities, th) ==
    IF stabilities = <<>> THEN <<>>
    ELSE
      LET sampled == AgentStatus(current.state, Head(stabilities))
          result == next_agent_status(sampled, th)
          step == SimulationStep(result.next_status,
                                 SelectSeq(result.events, LAMBDA e : e # None))
      IN <<step>> \o SimulationLoop_from_start_state(current, Tail(stabilities), th)

\* run_simulation without the advance `current = result.next_status`
run_simulation_never_advances(start, stabilities, th) ==
    SimulationLoop_from_start_state(start, stabilities, th)

\* run_simulation(start, stabilities, thresholds): the list of steps
run_simulation(start, stabilities, th) ==
    SimulationLoop(start, stabilities, th)

\* run_multi_agent_simulation's loop from step t to step n_steps
RECURSIVE MultiAgentLoop(_, _, _, _, _, _, _)
MultiAgentLoop(t, n_steps, current_agents, current_env, sequences, contagion, th) ==
    IF t > n_steps THEN <<>>
    ELSE
      LET raw == [i \in 1..Len(current_agents) |-> sequences[i][t]]
          step == MultiAgentStepOf(current_agents, current_env, raw,
                                   contagion, th)
      IN <<step>> \o MultiAgentLoop(t + 1, n_steps, step.agents,
                                    step.environment, sequences, contagion,
                                    th)

\* run_multi_agent_simulation accepting more sequences than agents
run_multi_agent_simulation_extra_sequences(agents, sequences, th, start_env, contagion) ==
    IF Len(sequences) < Len(agents) THEN Raised("ValueError")
    ELSE
      LET n_agents == Len(agents)
          n_steps == IF n_agents # 0 THEN Len(sequences[1]) ELSE 0
      IN IF \E i \in DOMAIN sequences : Len(sequences[i]) # n_steps
         THEN Raised("ValueError")
         ELSE Returned(MultiAgentLoop(1, n_steps, agents, start_env,
                                      sequences, contagion, th))

\* run_multi_agent_simulation(agents, sequences, thresholds=th,
\* start_environment=start_env, contagion=contagion) with both positional
\* arguments and the thresholds keyword given
run_multi_agent_simulation(agents, sequences, th, start_env, contagion) ==
    IF Len(sequences) # Len(agents) THEN Raised("ValueError")
    ELSE
      LET n_agents == Len(agents)
          n_steps == IF n_agents # 0 THEN Len(sequences[1]) ELSE 0
      IN IF \E i \in DOMAIN sequences : Len(sequences[i]) # n_steps
         THEN Raised("ValueError")
         ELSE Returned(MultiAgentLoop(1, n_steps, agents, start_env,
                                      sequences, contagion, th))

\* ------------------------------------------------- name-keyed factories
\* (src/src/policy_engine.py, profiles.py, policy.py)
\* A str is modelled as the sequence of its characters, so that lower(),
\* upper() and strip() are computed character by character.
LowerCase == <<"a", "b", "c", "d", "e", "f", "g", "h", "i", "j", "k", "l",
     "m", "n", "o", "p", "q", "r", "s", "t", "u", "v", "w", "x", "y", "z">>
UpperCase == <<"A", "B", "C", "D", "E", "F", "G", "H", "I", "J", "K", "L",
     "M", "N", "O", "P", "Q", "R", "S", "T", "U", "V", "W", "X", "Y", "Z">>

\* str.lower() and str.upper()
lower(s) ==
    [i \in DOMAIN s |->
        IF \E k \in DOMAIN UpperCase : UpperCase[k] = s[i]
        THEN LowerCase[CHOOSE k \in DOMAIN UpperCase : UpperCase[k] = s[i]]
        ELSE s[i]]
upper(s) ==
    [i \in DOMAIN s |->
        IF \E k \in DOMAIN LowerCase : LowerCase[k] = s[i]
        THEN UpperCase[CHOOSE k \in DOMAIN LowerCase : LowerCase[k] = s[i]]
        ELSE s[i]]

\* str.strip(): leading and trailing blanks removed
RECURSIVE lstrip(_)
lstrip(s) == IF s # <<>> /\ Head(s) = " " THEN lstrip(Tail(s)) ELSE s
RECURSIVE rstrip(_)
rstrip(s) ==
    IF s # <<>> /\ s[Len(s)] = " " THEN rstrip(SubSeq(s, 1, Len(s) - 1)) ELSE s
strip(s) == rstrip(lstrip(s))

\* `x or default` on an optional str: <<>> is None, <<s>> the str s
OrDefault(x, default) == IF x = <<>> \/ x[1] = <<>> THEN default ELSE x[1]

\* the string literals of the three factories
str_none == <<"n", "o", "n", "e">>
str_null == <<"n", "u", "l", "l">>
str_off == <<"o", "f", "f">>
str_trace == <<"t", "r", "a", "c", "e">>
str_debug == <<"d", "e", "b", "u", "g">>
str_fish == <<"f", "i", "s", "h">>
str_bird == <<"b", "i", "r", "d">>
str_ant_fast == <<"a", "n", "t", "_", "f", "a", "s", "t">>
str_ant_slow == <<"a", "n", "t", "_", "s", "l", "o", "w">>
str_BASE == <<"B", "A", "S", "E">>
str_B1_NO_TRANSITION == <<"B", "1", "_", "N", "O", "_", "T", "R", "A", "N",
     "S", "I", "T", "I", "O", "N">>
str_B2_MORE_PARK == <<"B", "2", "_", "M", "O", "R", "E", "_", "P", "A",
     "R", "K">>
str_B3_FISH_NO_REST == <<"B", "3", "_", "F", "I", "S", "H", "_", "N", "O",
     "_", "R", "E", "S", "T">>
str_P1_REST_SCARCITY == <<"P", "1", "_", "R", "E", "S", "T", "_", "S", "C",
     "A", "R", "C", "I", "T", "Y">>
str_P2A_SPARROW_ANT_ENGINE == <<"P", "2", "A", "_", "S", "P", "A", "R",
     "R", "O", "W", "_", "A", "N", "T", "_", "E", "N", "G", "I", "N", "E">>
str_P2B_FANTAIL_ANT_ENGINE == <<"P", "2", "B", "_", "F", "A", "N", "T",
     "A", "I", "L", "_", "A", "N", "T", "_", "E", "N", "G", "I", "N", "E">>
str_base == <<"b", "a", "s", "e">>
str_b1_no_transition == <<"b", "1", "_", "n", "o", "_", "t", "r", "a", "n",
     "s", "i", "t", "i", "o", "n">>
str_b2_more_park == <<"b", "2", "_", "m", "o", "r", "e", "_", "p", "a",
     "r", "k">>
str_b3_fish_no_rest == <<"b", "3", "_", "f", "i", "s", "h", "_", "n", "o",
     "_", "r", "e", "s", "t">>
str_p1_rest_scarcity == <<"p", "1", "_", "r", "e", "s", "t", "_", "s", "c",
     "a", "r", "c", "i", "t", "y">>
str_p2a_sparrow_ant_engine == <<"p", "2", "a", "_", "s", "p", "a", "r",
     "r", "o", "w", "_", "a", "n", "t", "_", "e", "n", "g", "i", "n", "e">>
str_p2b_fantail_ant_engine == <<"p", "2", "b", "_", "f", "a", "n", "t",
     "a", "i", "l", "_", "a", "n", "t", "_", "e", "n", "g", "i", "n", "e">>

\* PolicyBundle(policy), the policy given by its class name
PolicyBundle(policy) == [policy |-> policy]

\* policy_engine.make_policy(name)
make_policy(name) ==
    IF name = <<>> \/ name[1] = <<>>
       \/ lower(name[1]) \in {str_none, str_null, str_off}
    THEN Returned(PolicyBundle("NullPolicy"))
    ELSE IF lower(name[1]) \in {str_trace, str_debug}
    THEN Returned(PolicyBundle("TracePolicy"))
    ELSE Raised("ValueError")

\* the four MotionProfile constants of profiles.py, by their name and model
\* fields (the numeric motion parameters play no part in the lookup)
FISH_PROFILE == [name |-> "FANTAIL", model |-> "fish"]
BIRD_PROFILE == [name |-> "SPARROW", model |-> "fish"]
ANT_FAST_PROFILE == [name |-> "KIWI_FAST", model |-> "ant"]
ANT_SLOW_PROFILE == [name |-> "KIWI_SLOW", model |-> "ant"]

\* profiles.get_profile(profile_id)
get_profile(profile_id) ==
    LET pid == lower(strip(OrDefault(profile_id, <<>>))) IN
    IF pid = str_fish THEN Returned(FISH_PROFILE)
    ELSE IF pid = str_bird THEN Returned(BIRD_PROFILE)
    ELSE IF pid = str_ant_fast THEN Returned(ANT_FAST_PROFILE)
    ELSE IF pid = str_ant_slow THEN Returned(ANT_SLOW_PROFILE)
    ELSE Raised("ValueError")

\* VariantPolicy() with the dataclass defaults and run_tag = tag; the two
\* scales are in thousandths
VariantPolicy(tag) ==
    [enable_transition |-> TRUE, park_delta_scale |-> One,
     rest_delta_scale |-> One, fantail_allow_rest |-> TRUE,
     sparrow_allow_rest |-> TRUE, A_profile_id |-> str_fish,
     B_profile_id |-> str_ant_fast, C_profile_id |-> str_ant_slow,
     D_profile_id |-> str_bird, run_tag |-> tag]

\* policy.get_policy(variant)
get_policy(variant) ==
    LET v == upper(strip(OrDefault(variant, str_BASE))) IN
    IF v = str_BASE THEN Returned(VariantPolicy(str_base))
    ELSE IF v = str_B1_NO_TRANSITION
    THEN Returned([VariantPolicy(str_b1_no_transition)
                     EXCEPT !.enable_transition = FALSE])
    ELSE IF v = str_B2_MORE_PARK
    THEN Returned([VariantPolicy(str_b2_more_park)
                     EXCEPT !.park_delta_scale = 1250])
    ELSE IF v = str_B3_FISH_NO_REST
    THEN Returned([VariantPolicy(str_b3_fish_no_rest)
                     EXCEPT !.fantail_allow_rest = FALSE])
    ELSE IF v = str_P1_REST_SCARCITY
    THEN Returned([VariantPolicy(str_p1_rest_scarcity)
                     EXCEPT !.rest_delta_scale = 400])
    ELSE IF v = str_P2A_SPARROW_ANT_ENGINE
    THEN Returned([VariantPolicy(str_p2a_sparrow_ant_engine)
                     EXCEPT !.D_profile_id = str_ant_fast])
    ELSE IF v = str_P2B_FANTAIL_ANT_ENGINE
    THEN Returned([VariantPolicy(str_p2b_fantail_ant_engine)
                     EXCEPT !.A_profile_id = str_ant_slow])
    ELSE Returned(VariantPolicy(lower(v)))

\* ----------------------------------------------------------------- state
VARIABLES
    thresholds,   \* the thresholds argument of the run under way
    \* run_simulation
    start,        \* run_simulation's start argument
    stabilities,  \* the samples of the stabilities argument consumed so far
    current,      \* run_simulation's local `current`
    sampled,      \* local `sampled` of the latest iteration (None before)
    result,       \* local `result` of the latest iteration (None before)
    steps,        \* the list of SimulationStep built so far
    \* run_multi_agent_simulation
    agents,             \* the agents argument
    sequences,          \* per agent, the samples of its sequence consumed so far
    start_environment,  \* the start_environment keyword argument
    contagion,          \* the contagion keyword argument: <<>> is None, <<cfg>> a config
    current_env,        \* local `current_env`
    current_agents,     \* local `current_agents`
    multi_steps,        \* the list of MultiAgentStep built so far
    \* one call of apply_contagion (contagion.py) and of its v1 variant
    c_raw,        \* the raw_stabilities argument
    c_states,     \* the current_states argument
    c_env,        \* the env argument
    c_cfg,        \* the cfg argument of contagion.apply_contagion
    c_cfg_v1,     \* the cfg argument of contagion_rules.apply_contagion
    c_called,     \* TRUE once contagion.apply_contagion has been called
    c_out,        \* its outcome: Returned(list) or Raised(exception)
    c_called_v1,  \* TRUE once contagion_rules.apply_contagion has been called
    c_out_v1,     \* the list it returned
    \* one whole call of run_multi_agent_simulation and of run_simulation
    r_agents,     \* the agents argument
    r_sequences,  \* the sequences argument
    r_env,        \* the start_environment keyword argument
    r_contagion,  \* the contagion keyword argument: <<>> is None
    r_out,        \* outcome of run_multi_agent_simulation
    r_single_out, \* outcome of run_simulation(r_agents[1], r_sequences[1], ...)
    r_rules_out,  \* outcome of apply_rules on r_agents (or on r_agents[1]
                  \* alone: single_in) and r_env
    \* one call of enforce_mode
    g_mode,       \* the current_mode argument
    g_status,     \* the status argument
    g_out,        \* its outcome
    \* one construction of Thresholds
    t_fields,     \* the five constructor arguments
    t_out,        \* its outcome
    \* one call of each name-keyed factory on the same identifier
    f_name,        \* the identifier: <<>> is None, <<s>> the str s
    f_policy_out,  \* outcome of make_policy(f_name)
    f_profile_out, \* outcome of get_profile(f_name)
    f_variant_out  \* outcome of get_policy(f_name)

simVars == <<start, stabilities, current, sampled, result, steps>>
multiVars == <<agents, sequences, start_environment, contagion, current_env,
               current_agents, multi_steps>>
contagionVars == <<c_raw, c_states, c_env, c_cfg, c_cfg_v1, c_called, c_out,
                   c_called_v1, c_out_v1>>
runVars == <<r_agents, r_sequences, r_env, r_contagion, r_out, r_single_out,
             r_rules_out>>
modeVars == <<g_mode, g_status, g_out>>
constructVars == <<t_fields, t_out>>
factoryVars == <<f_name, f_policy_out, f_profile_out, f_variant_out>>
callVars == <<runVars, modeVars, constructVars, factoryVars>>
vars == <<thresholds, simVars, multiVars, contagionVars, callVars>>

\* the outcome of a call that has not been made yet
Pending == [raises |-> "Pending"]

\* no run_simulation call is under way
SimIdle ==
    /\ start = None
    /\ stabilities = <<>>
    /\ current = None
    /\ sampled = None
    /\ result = None
    /\ steps = <<>>

\* no run_multi_agent_simulation call is under way
MultiIdle ==
    /\ agents = <<>>
    /\ sequences = <<>>
    /\ start_environment = None
    /\ contagion = <<>>
    /\ current_env = None
    /\ current_agents = <<>>
    /\ multi_steps = <<>>

\* no apply_contagion call is under way
ContagionIdle ==
    /\ c_raw = <<>>
    /\ c_states = <<>>
    /\ c_env = None
    /\ c_cfg = None
    /\ c_cfg_v1 = None
    /\ c_called = FALSE
    /\ c_out = None
    /\ c_called_v1 = FALSE
    /\ c_out_v1 = None

\* no whole-run call is under way
RunIdle ==
    /\ r_agents = <<>>
    /\ r_sequences = <<>>
    /\ r_env = None
    /\ r_contagion = <<>>
    /\ r_out = Pending
    /\ r_single_out = Pending
    /\ r_rules_out = Pending

\* no enforce_mode call is under way
ModeIdle ==
    /\ g_mode = None
    /\ g_status = None
    /\ g_out = Pending

\* no Thresholds construction is under way
ConstructIdle ==
    /\ t_fields = None
    /\ t_out = Pending

\* no factory call is under way
FactoryIdle ==
    /\ f_name = <<>>
    /\ f_policy_out = Pending
    /\ f_profile_out = Pending
    /\ f_variant_out = Pending

\* none of the single-call operations is under way
CallIdle == RunIdle /\ ModeIdle /\ ConstructIdle /\ FactoryIdle

\* ------------------------------------------------------- run_simulation
\* run_simulation up to its loop: steps = [], current = start.
\* start.stability is never read (the loop replaces it by the sample).
Init ==
    /\ thresholds \in Thresholds
    /\ start \in {AgentStatus(s, One \div 2) : s \in AgentState}
    /\ stabilities = <<>>
    /\ current = start
    /\ sampled = None
    /\ result = None
    /\ steps = <<>>
    /\ MultiIdle
    /\ ContagionIdle
    /\ CallIdle

\* the events tuple run_simulation stores: result.events without None
FilterEvents(evs) == SelectSeq(evs, LAMBDA e : e # None)

\* the body of run_simulation's loop on the sample st
SimIteration(st) ==
    /\ LET smp == AgentStatus(current.state, st)
           res == next_agent_status(smp, thresholds)
       IN /\ sampled' = smp
          /\ result' = res
          /\ steps' = Append(steps, SimulationStep(res.next_status,
                                                   FilterEvents(res.events)))
          /\ current' = res.next_status
    /\ stabilities' = Append(stabilities, st)
    /\ UNCHANGED <<thresholds, start, multiVars, contagionVars, callVars>>

\* one iteration of run_simulation's loop on the sample st
SimStep(st) ==
    /\ Len(steps) < MaxSteps
    /\ SimIteration(st)

Next == \E st \in Samples : SimStep(st)

Spec == Init /\ [][Next]_vars

\* ------------------------------- run_simulation on a constant sample
\* the length of the constant sample sequences
SettleSteps == 5

\* run_simulation from any start state under any valid thresholds
InitConstant ==
    /\ thresholds \in Thresholds
    /\ start \in {AgentStatus(s, One \div 2) : s \in AgentState}
    /\ stabilities = <<>>
    /\ current = start
    /\ sampled = None
    /\ result = None
    /\ steps = <<>>
    /\ MultiIdle
    /\ ContagionIdle
    /\ CallIdle

\* one iteration of run_simulation's loop on a sequence that repeats its
\* first sample
ConstantStep(st) ==
    /\ Len(steps) < SettleSteps
    /\ IF stabilities = <<>> THEN TRUE ELSE st = stabilities[1]
    /\ SimIteration(st)

NextConstant == \E st \in Levels : ConstantStep(st)

SpecConstant == InitConstant /\ [][NextConstant]_vars

\* --------------------------------- run_simulation on the help-cycle test
\* th() of test_simulation_runner.py and test_enviroment_upshift.py
HelpCycleThresholds ==
    [help_enter |-> 300, help_exit |-> 400, rest_enter |-> 200,
     rest_exit |-> 350, visual_min_stable |-> 750]

\* the start status and the sample sequence of test_simple_help_cycle
HelpCycleStart == AgentStatus(LOADED, 500)
HelpCycleStabilities == <<250, 280, 450>>

\* runs under the test's thresholds, from any start state, over sequences
\* of the test's sample values no longer than the test's sequence
InitHelpCycle ==
    /\ thresholds = HelpCycleThresholds
    /\ start \in {AgentStatus(s, HelpCycleStart.stability) : s \in AgentState}
    /\ stabilities = <<>>
    /\ current = start
    /\ sampled = None
    /\ result = None
    /\ steps = <<>>
    /\ MultiIdle
    /\ ContagionIdle
    /\ CallIdle

HelpCycleStep(st) ==
    /\ Len(steps) < Len(HelpCycleStabilities)
    /\ SimIteration(st)

NextHelpCycle ==
    \E n \in DOMAIN HelpCycleStabilities : HelpCycleStep(HelpCycleStabilities[n])

SpecHelpCycle == InitHelpCycle /\ [][NextHelpCycle]_vars

\* ------------------------------------------- run_multi_agent_simulation
\* th_disable_help() of test_rest_override.py
DisableHelpThresholds ==
    [help_enter |-> 0 - One, help_exit |-> 0 - One, rest_enter |-> 600,
     rest_exit |-> 650, visual_min_stable |-> 800]

\* the thresholds of multi-agent runs: HELP enabled and HELP disabled
MultiThresholds == {HelpCycleThresholds, DisableHelpThresholds}

\* the sample values of multi-agent runs: 0.25 enters HELP (REST when HELP
\* is disabled), 0.9 of test_environment_upshifts_when_all_stable leaves both
MultiSamples == {250, 900}

\* ContagionConfig(enabled=False)
DisabledContagion ==
    ContagionConfig(FALSE, 50, 300, One, One \div 2, {HELP_SEEKING, REST}, FALSE)

\* the config of test_contagion_only_affects_stable_blocks_non_stable
StableOnlyContagion ==
    ContagionConfig(TRUE, 200, One, One, One, {HELP_SEEKING}, TRUE)

\* ContagionConfig(delta=0.2): strong enough to hold a 0.9 sample below
\* visual_min_stable
StrongContagion ==
    ContagionConfig(TRUE, 200, 300, One, One \div 2, {HELP_SEEKING, REST}, FALSE)

\* ContagionConfig(delta=0.4): one source in a Dense environment already
\* exceeds the default max_total_delta of 0.30
CappedContagion ==
    ContagionConfig(TRUE, 400, 300, One, One \div 2, {HELP_SEEKING, REST}, FALSE)

\* the contagion keyword argument: absent, disabled, enabled
ContagionOptions == {<<>>, <<DisabledContagion>>, <<StrongContagion>>}

\* run_multi_agent_simulation up to its loop, on arguments that pass its
\* shape validation (one sequence per agent, all of one length).  The
\* agents' start stabilities are never read.
InitMulti ==
    /\ thresholds \in MultiThresholds
    /\ agents \in [1..NumAgents -> {AgentStatus(s, 900) : s \in AgentState}]
    /\ sequences = [i \in 1..NumAgents |-> <<>>]
    /\ start_environment \in EnvironmentState
    /\ contagion \in ContagionOptions
    /\ current_env = start_environment
    /\ current_agents = agents
    /\ multi_steps = <<>>
    /\ SimIdle
    /\ ContagionIdle
    /\ CallIdle

\* one iteration of run_multi_agent_simulation's loop on the samples raw
MultiStep(raw) ==
    /\ Len(multi_steps) < MaxSteps
    /\ \E step \in {MultiAgentStepOf(current_agents, current_env, raw,
                                    contagion, thresholds)} :
          /\ current_env' = step.environment
          /\ multi_steps' = Append(multi_steps, step)
          /\ current_agents' = step.agents
    /\ sequences' = [i \in 1..NumAgents |-> Append(sequences[i], raw[i])]
    /\ UNCHANGED <<thresholds, agents, start_environment, contagion,
                   simVars, contagionVars, callVars>>

NextMulti == \E raw \in [1..NumAgents -> MultiSamples] : MultiStep(raw)

SpecMulti == InitMulti /\ [][NextMulti]_vars

\* ------------------------------------------------------ apply_contagion
\* every list over the set S of at most n entries
SeqsUpTo(S, n) == UNION {[1..k -> S] : k \in 0..n}

\* raw stability inputs: below 0, inside [0,1] and above 1
ContagionRaws == {0 - 200, 500, 1200}

\* the ContagionConfig values a call is made with
ContagionConfigs ==
    {DisabledContagion, DefaultContagion, StableOnlyContagion, CappedContagion}

\* contagion_rules.ContagionConfig() and ContagionConfig(enabled=False)
DefaultContagionV1 == ContagionConfigV1(TRUE, 50, One, One \div 2, 0, One)
DisabledContagionV1 == ContagionConfigV1(FALSE, 50, One, One \div 2, 0, One)

\* the arguments of one call; the two lists need not have the same length
InitContagion ==
    /\ thresholds = None
    /\ c_raw \in SeqsUpTo(ContagionRaws, NumAgents)
    /\ c_states \in SeqsUpTo(AgentState, NumAgents)
    /\ c_env \in EnvironmentState
    /\ c_cfg \in ContagionConfigs
    /\ c_cfg_v1 \in {DefaultContagionV1, DisabledContagionV1}
    /\ c_called = FALSE
    /\ c_out = None
    /\ c_called_v1 = FALSE
    /\ c_out_v1 = None
    /\ SimIdle
    /\ MultiIdle
    /\ CallIdle

\* the call contagion.apply_contagion(raw_stabilities=c_raw,
\* current_states=c_states, env=c_env, cfg=c_cfg)
ApplyContagion ==
    /\ ~c_called
    /\ c_called' = TRUE
    /\ c_out' = apply_contagion(c_raw, c_states, c_env, c_cfg)
    /\ UNCHANGED <<thresholds, c_raw, c_states, c_env, c_cfg, c_cfg_v1,
                   c_called_v1, c_out_v1, simVars, multiVars, callVars>>

\* the call contagion_rules.apply_contagion(c_raw, c_states, c_env, c_cfg_v1)
ApplyContagionV1 ==
    /\ ~c_called_v1
    /\ c_called_v1' = TRUE
    /\ c_out_v1' = apply_contagion_v1(c_raw, c_states, c_env, c_cfg_v1)
    /\ UNCHANGED <<thresholds, c_raw, c_states, c_env, c_cfg, c_cfg_v1,
                   c_called, c_out, simVars, multiVars, callVars>>

NextContagion == ApplyContagion \/ ApplyContagionV1

SpecContagion == InitContagion /\ [][NextContagion]_vars

\* ---------------------------------- contagion_rules.apply_contagion (v1)
\* the config of test_contagion_rules.py, delta=0.1, and the same with a
\* clamp range inside [0,1]
TestContagionV1 == ContagionConfigV1(TRUE, 100, One, One \div 2, 0, One)
NarrowContagionV1 == ContagionConfigV1(TRUE, 100, One, One \div 2, 200, 800)

\* the population of these calls: one agent more than NumAgents, so that
\* two unstable agents can stand next to a third agent
V1Agents == NumAgents + 1

\* one call on a raw list and a state list of V1Agents entries each
InitContagionV1 ==
    /\ thresholds = None
    /\ c_raw \in [1..V1Agents -> ContagionRaws]
    /\ c_states \in [1..V1Agents -> AgentState]
    /\ c_env \in EnvironmentState
    /\ c_cfg = None
    /\ c_cfg_v1 \in {TestContagionV1, NarrowContagionV1}
    /\ c_called = FALSE
    /\ c_out = None
    /\ c_called_v1 = FALSE
    /\ c_out_v1 = None
    /\ SimIdle
    /\ MultiIdle
    /\ CallIdle

NextContagionV1 == ApplyContagionV1

SpecContagionV1 == InitContagionV1 /\ [][NextContagionV1]_vars

\* ------------------- run_multi_agent_simulation as a whole call: shapes
\* the start statuses of shape runs
ShapeAgents == {AgentStatus(s, 900) : s \in {STABLE, HELP_SEEKING}}

\* one call on up to NumAgents agents and up to NumAgents sequences of up
\* to MaxSteps samples each; the sequences need not match the agents in
\* number nor each other in length
InitRunShapes ==
    /\ thresholds = HelpCycleThresholds
    /\ r_agents \in SeqsUpTo(ShapeAgents, NumAgents)
    /\ r_sequences \in SeqsUpTo(SeqsUpTo(MultiSamples, MaxSteps), NumAgents)
    /\ r_env \in {CALM, DENSE}
    /\ r_contagion \in {<<>>, <<StrongContagion>>}
    /\ r_out = Pending
    /\ r_single_out = Pending
    /\ r_rules_out = Pending
    /\ SimIdle
    /\ MultiIdle
    /\ ContagionIdle
    /\ ModeIdle
    /\ ConstructIdle
    /\ FactoryIdle

\* the call run_multi_agent_simulation(r_agents, r_sequences,
\* thresholds=thresholds, start_environment=r_env, contagion=r_contagion)
RunMulti ==
    /\ r_out.raises = "Pending"
    /\ r_out' = run_multi_agent_simulation(r_agents, r_sequences, thresholds,
                                           r_env, r_contagion)
    /\ UNCHANGED <<thresholds, r_agents, r_sequences, r_env, r_contagion,
                   r_single_out, r_rules_out, simVars, multiVars,
                   contagionVars, modeVars, constructVars, factoryVars>>

NextRunShapes == RunMulti

SpecRunShapes == InitRunShapes /\ [][NextRunShapes]_vars

\* --------------------- run_simulation and the multi-agent run with N = 1
\* one start status and one sample sequence, handed to both drivers; the
\* multi-agent driver gets no contagion
\* the samples of these runs: the sampled points and a sample equal to the
\* -1.0 sentinel of disabled HELP thresholds
SingleSamples == Samples \cup {0 - One}

InitSingleAgent ==
    /\ thresholds \in MultiThresholds
    /\ r_agents \in {<<AgentStatus(s, One \div 2)>> : s \in AgentState}
    /\ r_sequences \in {<<q>> : q \in SeqsUpTo(SingleSamples, MaxSteps)}
    /\ r_env \in EnvironmentState
    /\ r_contagion = <<>>
    /\ r_out = Pending
    /\ r_single_out = Pending
    /\ r_rules_out = Pending
    /\ SimIdle
    /\ MultiIdle
    /\ ContagionIdle
    /\ ModeIdle
    /\ ConstructIdle
    /\ FactoryIdle

\* the call run_simulation(r_agents[1], r_sequences[1], thresholds)
RunSingle ==
    /\ r_single_out.raises = "Pending"
    /\ Len(r_agents) = 1
    /\ Len(r_sequences) = 1
    /\ r_single_out' = Returned(run_simulation(r_agents[1], r_sequences[1],
                                               thresholds))
    /\ UNCHANGED <<thresholds, r_agents, r_sequences, r_env, r_contagion,
                   r_out, r_rules_out, simVars, multiVars, contagionVars,
                   modeVars, constructVars, factoryVars>>

NextSingleAgent == RunSingle \/ RunMulti

SpecSingleAgent == InitSingleAgent /\ [][NextSingleAgent]_vars

\* ------------------ apply_rules and one step of the multi-agent run
\* the statuses handed to apply_rules: any state on a multi-agent sample
RulesAgents == {AgentStatus(s, x) : s \in AgentState, x \in MultiSamples}

\* one to NumAgents statuses and an environment, handed to apply_rules and,
\* with every agent's own stability as its one-sample sequence and without
\* contagion, to run_multi_agent_simulation
InitApplyRules ==
    /\ thresholds \in MultiThresholds
    /\ r_agents \in UNION {[1..k -> RulesAgents] : k \in 1..NumAgents}
    /\ r_sequences = [i \in DOMAIN r_agents |-> <<r_agents[i].stability>>]
    /\ r_env \in EnvironmentState
    /\ r_contagion \in {<<>>, <<DisabledContagion>>}
    /\ r_out = Pending
    /\ r_single_out = Pending
    /\ r_rules_out = Pending
    /\ SimIdle
    /\ MultiIdle
    /\ ContagionIdle
    /\ ModeIdle
    /\ ConstructIdle
    /\ FactoryIdle

\* the call apply_rules(r_agents, r_env, thresholds), or
\* apply_rules(r_agents[0], r_env, thresholds) on a single status
ApplyRules(single_in) ==
    /\ r_rules_out.raises = "Pending"
    /\ single_in => Len(r_agents) = 1
    /\ r_rules_out' =
         [raises |-> None,
          single_in |-> single_in,
          value |-> apply_rules(single_in,
                                IF single_in THEN r_agents[1] ELSE r_agents,
                                r_env, thresholds)]
    /\ UNCHANGED <<thresholds, r_agents, r_sequences, r_env, r_contagion,
                   r_out, r_single_out, simVars, multiVars, contagionVars,
                   modeVars, constructVars, factoryVars>>

NextApplyRules == (\E single_in \in BOOLEAN : ApplyRules(single_in)) \/ RunMulti

SpecApplyRules == InitApplyRules /\ [][NextApplyRules]_vars

\* ---------------------------------------------------------- enforce_mode
\* one call on any mode, any state and any sample as stability
InitMode ==
    /\ thresholds \in Thresholds
    /\ g_mode \in Mode
    /\ g_status \in {AgentStatus(s, x) : s \in AgentState, x \in Samples}
    /\ g_out = Pending
    /\ SimIdle
    /\ MultiIdle
    /\ ContagionIdle
    /\ RunIdle
    /\ ConstructIdle
    /\ FactoryIdle

\* the call enforce_mode(g_mode, g_status, thresholds)
EnforceMode ==
    /\ g_out.raises = "Pending"
    /\ g_out' = Returned(enforce_mode(g_mode, g_status, thresholds))
    /\ UNCHANGED <<thresholds, g_mode, g_status, simVars, multiVars,
                   contagionVars, runVars, constructVars, factoryVars>>

NextMode == EnforceMode

SpecMode == InitMode /\ [][NextMode]_vars

\* ------------------------------------------------ Thresholds construction
\* constructor arguments: the candidate threshold values and one value on
\* each side of [0,1]
ConstructValues == ThresholdValues \cup {BelowZero, AboveOne}

InitConstruct ==
    /\ thresholds = None
    /\ t_fields \in [help_enter : ConstructValues, help_exit : ConstructValues,
                     rest_enter : ConstructValues, rest_exit : ConstructValues,
                     visual_min_stable : ConstructValues]
    /\ t_out = Pending
    /\ SimIdle
    /\ MultiIdle
    /\ ContagionIdle
    /\ RunIdle
    /\ ModeIdle
    /\ FactoryIdle

\* the construction Thresholds(**t_fields)
Construct ==
    /\ t_out.raises = "Pending"
    /\ t_out' = NewThresholds(t_fields)
    /\ UNCHANGED <<thresholds, t_fields, simVars, multiVars, contagionVars,
                   runVars, modeVars, factoryVars>>

NextConstruct == Construct

SpecConstruct == InitConstruct /\ [][NextConstruct]_vars

\* ------------------------------------------------------------- factories
\* the identifiers handed to the factories: None, the empty str, known
\* names in several spellings, and unknown names
FactoryNames ==
    {<<>>,
     <<<<>>>>,
     <<<<"N", "o", "n", "e">>>>,
     <<<<"N", "U", "L", "L">>>>,
     <<<<"o", "f", "f">>>>,
     <<<<"T", "r", "a", "c", "e">>>>,
     <<<<"d", "e", "b", "u", "g">>>>,
     <<<<" ", "t", "r", "a", "c", "e">>>>,
     <<<<"b", "o", "g", "u", "s">>>>,
     <<<<" ", "F", "i", "s", "h", " ">>>>,
     <<<<"B", "I", "R", "D">>>>,
     <<<<"a", "n", "t", "_", "f", "a", "s", "t">>>>,
     <<<<"A", "n", "t", "_", "S", "l", "o", "w", " ">>>>,
     <<<<"a", "n", "t">>>>,
     <<<<"b", "a", "s", "e">>>>,
     <<<<" ", "b", "1", "_", "n", "o", "_", "t", "r", "a", "n", "s", "i", "t", "i", "o", "n">>>>,
     <<<<"B", "2", "_", "M", "O", "R", "E", "_", "P", "A", "R", "K">>>>,
     <<<<"b", "3", "_", "f", "i", "s", "h", "_", "n", "o", "_", "r", "e", "s", "t">>>>,
     <<<<"P", "1", "_", "R", "E", "S", "T", "_", "S", "C", "A", "R", "C", "I", "T", "Y">>>>,
     <<<<"p", "2", "a", "_", "s", "p", "a", "r", "r", "o", "w", "_", "a", "n", "t", "_", "e", "n", "g", "i", "n", "e">>>>,
     <<<<"P", "2", "B", "_", "F", "A", "N", "T", "A", "I", "L", "_", "A", "N", "T", "_", "E", "N", "G", "I", "N", "E">>>>,
     <<<<"B", "4", "_", "U", "N", "K", "N", "O", "W", "N">>>>,
     <<<<" ">>>>}

InitFactories ==
    /\ thresholds = None
    /\ f_name \in FactoryNames
    /\ f_policy_out = Pending
    /\ f_profile_out = Pending
    /\ f_variant_out = Pending
    /\ SimIdle
    /\ MultiIdle
    /\ ContagionIdle
    /\ RunIdle
    /\ ModeIdle
    /\ ConstructIdle

\* the call make_policy(f_name)
MakePolicy ==
    /\ f_policy_out.raises = "Pending"
    /\ f_policy_out' = make_policy(f_name)
    /\ UNCHANGED <<thresholds, f_name, f_profile_out, f_variant_out, simVars,
                   multiVars, contagionVars, runVars, modeVars, constructVars>>

\* the call get_profile(f_name)
GetProfile ==
    /\ f_profile_out.raises = "Pending"
    /\ f_profile_out' = get_profile(f_name)
    /\ UNCHANGED <<thresholds, f_name, f_policy_out, f_variant_out, simVars,
                   multiVars, contagionVars, runVars, modeVars, constructVars>>

\* the call get_policy(f_name)
GetPolicy ==
    /\ f_variant_out.raises = "Pending"
    /\ f_variant_out' = get_policy(f_name)
    /\ UNCHANGED <<thresholds, f_name, f_policy_out, f_profile_out, simVars,
                   multiVars, contagionVars, runVars, modeVars, constructVars>>

NextFactories == MakePolicy \/ GetProfile \/ GetPolicy

SpecFactories == InitFactories /\ [][NextFactories]_vars

\* ------------------------------------------------ shorthands for claims
\* next_agent_status has been called at least once in this run
Called == Len(steps) > 0
\* the latest call's input and output
InState == sampled.state
InX == sampled.stability
OutState == result.next_status.state
OutX == result.next_status.stability
\* the HELP-entry condition of the latest call
HelpEntry == _help_enabled(thresholds) /\ InX <= thresholds.help_enter
\* some event tag e occurs in step i of the run
HasEvent(i, e) == \E n \in 1..Len(steps[i].events) : steps[i].events[n] = e
\* between any two steps carrying the event ex there is one carrying en
EnterBetweenExits(ex, en) ==
    \A i \in 1..Len(steps) : \A j \in 1..Len(steps) :
        (i < j /\ HasEvent(i, ex) /\ HasEvent(j, ex))
            => \E k \in (i + 1)..(j - 1) : HasEvent(k, en)

C2_HelpEntryPreemptsRest ==
    (Called /\ _help_enabled(thresholds) /\ InState # HELP_SEEKING
        /\ InX <= thresholds.help_enter)
      => (OutState = HELP_SEEKING /\ result.events = <<ENTER_HELP>>)

\* an agent in Rest sampled exactly at help_enter, below rest_enter
C2_Witness ==
    /\ Called
    /\ _help_enabled(thresholds)
    /\ InState = REST
    /\ InX = thresholds.help_enter
    /\ InX < thresholds.rest_enter
    /\ OutState = HELP_SEEKING

\* C3: HELP exit is inclusive, for HELP enabled or disabled: a call on a
\* HelpSeeking agent with stability >= help_exit returns Recovered with
\* EXIT_HELP.
C3_HelpExitInclusive ==
    (Called /\ InState = HELP_SEEKING /\ InX >= thresholds.help_exit)
      => (OutState = RECOVERED /\ Event(result) = EXIT_HELP)

\* C4: REST is sticky with inclusive exit. A call on an agent in Rest whose
\* sample does not satisfy HELP entry returns Rest without event below
\* rest_exit and Recovered with EXIT_REST from rest_exit upward.
C4_RestSticky ==
    (Called /\ InState = REST /\ ~HelpEntry)
      => /\ (InX < thresholds.rest_exit
               => (OutState = REST /\ result.events = <<>>))
         /\ (InX >= thresholds.rest_exit
               => (OutState = RECOVERED /\ result.events = <<EXIT_REST>>))

\* an agent in Rest leaving exactly at rest_exit
C4_Witness ==
    /\ Called
    /\ InState = REST
    /\ ~HelpEntry
    /\ InX = thresholds.rest_exit
    /\ OutState = RECOVERED

\* C5: REST entry is strict. A call on a Stable, Loaded or Recovered agent
\* whose sample does not satisfy HELP entry does not enter Rest (and emits
\* no ENTER_REST) at exactly rest_enter, and enters Rest with ENTER_REST
\* strictly below it.
C5_RestEntryStrict ==
    (Called /\ InState \in {STABLE, LOADED, RECOVERED} /\ ~HelpEntry)
      => /\ (InX = thresholds.rest_enter
               => (OutState # REST /\ Event(result) # ENTER_REST))
         /\ (InX < thresholds.rest_enter
               => (OutState = REST /\ result.events = <<ENTER_REST>>))

\* a Stable agent sampled exactly at rest_enter, which stays out of Rest
C5_Witness ==
    /\ Called
    /\ InState = STABLE
    /\ ~HelpEntry
    /\ InX = thresholds.rest_enter
    /\ OutState = STABLE

C7_AtMostOneEvent ==
    Called => /\ Len(result.events) <= 1
              /\ (OutState = InState => result.events = <<>>)

\* a call that changes the state with one event, after one that changed
\* nothing
C7_Witness ==
    /\ Len(steps) >= 2
    /\ steps[Len(steps) - 1].events = <<>>
    /\ OutState # InState
    /\ Len(result.events) = 1

\* the sample of the latest call lies in the middle band
MiddleBand ==
    /\ InX >= thresholds.rest_enter
    /\ ~HelpEntry
    /\ InX < thresholds.visual_min_stable

C9_RecoveredGate ==
    /\ (Called /\ InState = RECOVERED /\ ~HelpEntry
            /\ ~(InX < thresholds.rest_enter)
            /\ InX >= thresholds.visual_min_stable)
         => (OutState = STABLE /\ result.events = <<RECOVERED_TO_STABLE>>)
    /\ (Called /\ InState \in {REST, HELP_SEEKING}) => OutState # STABLE

\* a Recovered agent sampled exactly at visual_min_stable becoming Stable
C9_Witness ==
    /\ Called
    /\ InState = RECOVERED
    /\ InX = thresholds.visual_min_stable
    /\ OutState = STABLE

\* C10: totality. For every state and every stability in [0,1] the call
\* returns one of the five AgentState values with a stability in [0,1].
C10_Totality ==
    (Called /\ 0 <= InX /\ InX <= One)
      => /\ OutState \in AgentState
         /\ 0 <= OutX /\ OutX <= One

\* a call that falls through every rule on an in-range sample
C10_Witness ==
    /\ Called
    /\ 0 <= InX /\ InX <= One
    /\ InState = STABLE
    /\ result.events = <<>>
    /\ OutState = STABLE

\* C11: end-to-end help cycle. Under the test thresholds, run_simulation
\* from Loaded@0.5 over [0.25, 0.28, 0.45] records HelpSeeking with
\* ENTER_HELP, then HelpSeeking with no event, then Recovered with
\* EXIT_HELP (each step carrying its sample as stability).
HelpCycleExpected ==
    <<[state |-> HELP_SEEKING, event |-> ENTER_HELP],
      [state |-> HELP_SEEKING, event |-> None],
      [state |-> RECOVERED, event |-> EXIT_HELP]>>

C11_HelpCycle ==
    (/\ thresholds = HelpCycleThresholds
     /\ start = HelpCycleStart
     /\ \A n \in 1..Len(stabilities) : stabilities[n] = HelpCycleStabilities[n])
      => \A n \in 1..Len(steps) :
            /\ steps[n].status.state = HelpCycleExpected[n].state
            /\ steps[n].status.stability = HelpCycleStabilities[n]
            /\ StepEvent(steps[n]) = HelpCycleExpected[n].event

\* the test's run, complete
C11_Witness ==
    /\ start = HelpCycleStart
    /\ stabilities = HelpCycleStabilities
    /\ Len(steps) = Len(HelpCycleStabilities)
    /\ steps[3].status.state = RECOVERED

\* ------------------------------------- shorthands for multi-agent claims
\* the step numbers recorded so far
MultiSteps == 1..Len(multi_steps)
AgentIds == 1..NumAgents
\* the agents and the environment as they stood when step t began
PreAgents(t) == IF t = 1 THEN agents ELSE multi_steps[t - 1].agents
PreEnv(t) == IF t = 1 THEN start_environment ELSE multi_steps[t - 1].environment
\* the raw sample of agent i in step t
RawOf(t, i) == sequences[i][t]
\* some agent is HelpSeeking or Rest before / after step t
PreUnstable(t) == \E i \in AgentIds : PreAgents(t)[i].state \in {HELP_SEEKING, REST}
NewUnstable(t) ==
    \E i \in AgentIds : multi_steps[t].agents[i].state \in {HELP_SEEKING, REST}
\* every agent is Stable after step t
NewAllStable(t) == \A i \in AgentIds : multi_steps[t].agents[i].state = STABLE

\* C12: environment downshift. A step that starts Dense and in which some
\* agent's new state is HelpSeeking or Rest records Calm with
\* ENV_DOWNSHIFT; environment_downshift_if_needed(Dense, True) returns
\* (Calm, ENV_DOWNSHIFT).
C12_Downshift ==
    /\ \A t \in MultiSteps :
          (PreEnv(t) = DENSE /\ NewUnstable(t))
            => /\ multi_steps[t].environment = CALM
               /\ multi_steps[t].env_event = ENV_DOWNSHIFT
    /\ environment_downshift_if_needed(DENSE, TRUE) = <<CALM, ENV_DOWNSHIFT>>

\* a Dense step in which an agent enters Rest
C12_Witness ==
    \E t \in MultiSteps : \E i \in AgentIds :
        /\ PreEnv(t) = DENSE
        /\ PreAgents(t)[i].state = STABLE
        /\ multi_steps[t].agents[i].state = REST
        /\ multi_steps[t].environment = CALM

\* C13: environment upshift. A step that starts Calm and in which every
\* agent's new state is Stable records Dense with ENV_UPSHIFT.
C13_Upshift ==
    \A t \in MultiSteps :
        (PreEnv(t) = CALM /\ NewAllStable(t))
          => /\ multi_steps[t].environment = DENSE
             /\ multi_steps[t].env_event = ENV_UPSHIFT

\* the test's run: every agent Stable@0.9, Calm, one sample 0.9 each
C13_Witness ==
    /\ thresholds = HelpCycleThresholds
    /\ \A i \in AgentIds : agents[i] = AgentStatus(STABLE, 900)
    /\ start_environment = CALM
    /\ \A i \in AgentIds : sequences[i] = <<900>>
    /\ Len(multi_steps) = 1
    /\ multi_steps[1].environment = DENSE

\* C14: upshift requires an all-Stable population. A step changes the
\* environment from Calm to Dense (ENV_UPSHIFT) only if every agent's new
\* state is Stable.
C14_UpshiftOnlyAllStable ==
    \A t \in MultiSteps :
        ((PreEnv(t) = CALM /\ multi_steps[t].environment = DENSE)
            \/ multi_steps[t].env_event = ENV_UPSHIFT)
          => NewAllStable(t)

\* C15: downshift has priority and suppresses upshift. Every step records
\* at most one environment event; a step whose event is ENV_DOWNSHIFT
\* records Calm, and a Dense step with an unstable new state records
\* neither Dense nor ENV_UPSHIFT.
C15_DownshiftPriority ==
    \A t \in MultiSteps :
        /\ multi_steps[t].env_event \in {None, ENV_DOWNSHIFT, ENV_UPSHIFT}
        /\ (multi_steps[t].env_event = ENV_DOWNSHIFT
              => multi_steps[t].environment = CALM)
        /\ ((PreEnv(t) = DENSE /\ NewUnstable(t))
              => /\ multi_steps[t].environment # DENSE
                 /\ multi_steps[t].env_event # ENV_UPSHIFT)

\* a downshift step followed by a step that upshifts again
C15_Witness ==
    /\ Len(multi_steps) = 2
    /\ multi_steps[1].env_event = ENV_DOWNSHIFT
    /\ multi_steps[1].environment = CALM
    /\ multi_steps[2].env_event = ENV_UPSHIFT

\* C16: the only environment transitions are Dense to Calm with
\* ENV_DOWNSHIFT and Calm to Dense with ENV_UPSHIFT. A step that leaves the
\* environment unchanged records no event, a run started Active stays
\* Active without events, and a run not started Active never records
\* Active.
C16_OnlyTwoTransitions ==
    /\ \A t \in MultiSteps :
          \/ /\ multi_steps[t].environment = PreEnv(t)
             /\ multi_steps[t].env_event = None
          \/ /\ PreEnv(t) = DENSE
             /\ multi_steps[t].environment = CALM
             /\ multi_steps[t].env_event = ENV_DOWNSHIFT
          \/ /\ PreEnv(t) = CALM
             /\ multi_steps[t].environment = DENSE
             /\ multi_steps[t].env_event = ENV_UPSHIFT
    /\ start_environment = ACTIVE
         => \A t \in MultiSteps : /\ multi_steps[t].environment = ACTIVE
                                  /\ multi_steps[t].env_event = None
    /\ start_environment # ACTIVE
         => \A t \in MultiSteps : multi_steps[t].environment # ACTIVE

\* a full run started Active whose agents all end up Stable
C16_Witness ==
    /\ start_environment = ACTIVE
    /\ Len(multi_steps) = MaxSteps
    /\ NewAllStable(Len(multi_steps))
    /\ current_env = ACTIVE

\* C17: the environment policy of step t reads the post-transition states.
\* In a Dense step where no agent was HelpSeeking or Rest before and one
\* becomes so, the record shows Calm with ENV_DOWNSHIFT; in a Dense step
\* where agents were HelpSeeking or Rest before but none is afterwards, the
\* environment stays Dense with no event.
C17_PolicyOnNewStates ==
    \A t \in MultiSteps :
        /\ (PreEnv(t) = DENSE /\ ~PreUnstable(t) /\ NewUnstable(t))
             => /\ multi_steps[t].environment = CALM
                /\ multi_steps[t].env_event = ENV_DOWNSHIFT
        /\ (PreEnv(t) = DENSE /\ PreUnstable(t) /\ ~NewUnstable(t))
             => /\ multi_steps[t].environment = DENSE
                /\ multi_steps[t].env_event = None

\* a Dense step in which the only unstable agents leave HelpSeeking or Rest
C17_Witness ==
    \E t \in MultiSteps :
        /\ PreEnv(t) = DENSE
        /\ PreUnstable(t)
        /\ ~NewUnstable(t)
        /\ multi_steps[t].environment = DENSE

\* contagion is configured and enabled for the run
ContagionOn == contagion # <<>> /\ contagion[1].enabled
\* the number of contagion sources among the agents before step t
SourcesBefore(t) ==
    Cardinality({i \in AgentIds :
                    PreAgents(t)[i].state \in contagion[1].source_states})
\* min(max_total_delta, delta * k * scale) for k sources under environment env
InfluenceOf(k, env) ==
    LET scale == IF env = DENSE THEN contagion[1].dense_scale
                 ELSE contagion[1].calm_scale
        product == (contagion[1].delta * k * scale) \div One
    IN IF product > contagion[1].max_total_delta
       THEN contagion[1].max_total_delta ELSE product
\* agent i is open to contagion in step t: not a source, and Stable when
\* only_affects_stable is set
Affected(t, i) ==
    /\ PreAgents(t)[i].state \notin contagion[1].source_states
    /\ (contagion[1].only_affects_stable => PreAgents(t)[i].state = STABLE)

\* C18: read-then-write barrier. With contagion enabled, the sources of
\* step t are counted on the states held before the step: with no source
\* before the step every agent is evaluated on its raw sample, whoever
\* becomes HelpSeeking or Rest in the step; with k sources before the step
\* every affected agent is evaluated on clamp01(raw - influence(k)).
C18_ReadThenWrite ==
    ContagionOn =>
      \A t \in MultiSteps : \A i \in AgentIds :
          /\ SourcesBefore(t) = 0
               => multi_steps[t].agents[i].stability = RawOf(t, i)
          /\ (SourcesBefore(t) > 0 /\ Affected(t, i))
               => multi_steps[t].agents[i].stability =
                    _clamp01(RawOf(t, i)
                             - InfluenceOf(SourcesBefore(t), PreEnv(t)))

\* agent 1 becomes a source in step 1 without touching agent 2's sample of
\* that step, and lowers agent 2's sample in step 2
C18_Witness ==
    /\ ContagionOn
    /\ Len(multi_steps) = 2
    /\ SourcesBefore(1) = 0
    /\ multi_steps[1].agents[1].state \in {HELP_SEEKING, REST}
    /\ multi_steps[1].agents[2].stability = RawOf(1, 2)
    /\ SourcesBefore(2) = 1
    /\ multi_steps[2].agents[2].stability < RawOf(2, 2)

\* --------------------------------- shorthands for apply_contagion claims
\* the two argument lists have the same length
SameLength == Len(c_raw) = Len(c_states)
\* no entry of c_states is in the source set of c_cfg
NoSource == CountIn(c_states, c_cfg.source_states) = 0

\* C19: apply_contagion raises the length-mismatch error whenever the two
\* lists differ in length, for enabled and disabled configs alike, and
\* returns no list.
C19_LengthMismatchRaises ==
    (c_called /\ ~SameLength)
      => /\ c_out.raises = "ValueError"
         /\ "value" \notin DOMAIN c_out

\* C20: contagion no-op paths. A disabled config, or equal-length lists
\* without any source state, make contagion.apply_contagion return a list
\* equal to raw_stabilities; a disabled config, or no HelpSeeking/Rest
\* state, make the v1 apply_contagion return raw_stabilities.
C20_NoOpPaths ==
    /\ (c_called /\ (~c_cfg.enabled \/ (SameLength /\ NoSource)))
         => /\ c_out.raises = None
            /\ c_out.value = c_raw
    /\ (c_called_v1
          /\ (~c_cfg_v1.enabled
                \/ \A i \in DOMAIN c_states : ~is_unstable_state_v1(c_states[i])))
         => c_out_v1 = c_raw

\* an enabled call without sources on a list holding out-of-range values
C20_Witness ==
    /\ c_called
    /\ c_cfg.enabled
    /\ SameLength
    /\ NoSource
    /\ \E i \in DOMAIN c_raw : c_raw[i] < 0 \/ c_raw[i] > One
    /\ c_out.value = c_raw

\* contagion.apply_contagion ran its loop: the call was made with an
\* enabled config on equal-length lists holding at least one source state
ContagionApplied == c_called /\ c_cfg.enabled /\ SameLength /\ ~NoSource
\* position i of the call holds a source state
IsSource(i) == c_states[i] \in c_cfg.source_states
\* min(max_total_delta, delta * k * scale) of the call, from its arguments
CallInfluence ==
    LET k == CountIn(c_states, c_cfg.source_states)
        scale == IF c_env = DENSE THEN c_cfg.dense_scale ELSE c_cfg.calm_scale
        product == (c_cfg.delta * k * scale) \div One
    IN IF c_cfg.max_total_delta < product THEN c_cfg.max_total_delta
       ELSE product
\* a value of [0,1]
InUnit(x) == 0 <= x /\ x <= One

\* C21 as stated: for every config, environment and equal-length lists,
\* every value apply_contagion returns lies in [0,1].
C21_AllOutputsClamped ==
    (c_called /\ SameLength)
      => /\ c_out.raises = None
         /\ \A i \in DOMAIN c_out.value : InUnit(c_out.value[i])

\* C21 amended: when contagion applies (enabled config, equal-length lists,
\* at least one source state) every returned value lies in [0,1], also for
\* raw inputs outside [0,1]; on the no-op paths (disabled config or no
\* source) the returned values are the raw inputs, in range or not.
C21_AppliedOutputsClamped ==
    /\ ContagionApplied
         => /\ c_out.raises = None
            /\ Len(c_out.value) = Len(c_raw)
            /\ \A i \in DOMAIN c_out.value : InUnit(c_out.value[i])
    /\ (c_called /\ SameLength /\ ~ContagionApplied)
         => /\ c_out.raises = None
            /\ \A i \in DOMAIN c_raw : c_out.value[i] = c_raw[i]

\* contagion applied to a reduced agent whose raw value was below 0 and to
\* a value above 1
C21_Witness ==
    /\ ContagionApplied
    /\ \E i \in DOMAIN c_raw :
          /\ ~IsSource(i)
          /\ c_raw[i] < 0
          /\ c_out.value[i] = 0
    /\ \E i \in DOMAIN c_raw : c_raw[i] > One /\ c_out.value[i] = One

C23_SourcesPassThrough ==
    ContagionApplied
      => /\ c_out.raises = None
         /\ \A i \in DOMAIN c_raw :
               IsSource(i) => c_out.value[i] = _clamp01(c_raw[i])

\* a call with two sources and a positive influence that leaves an in-range
\* source value as it was and clamps an out-of-range one
C23_Witness ==
    /\ ContagionApplied
    /\ CallInfluence > 0
    /\ \E i, j \in DOMAIN c_raw :
          /\ i # j
          /\ IsSource(i) /\ IsSource(j)
          /\ InUnit(c_raw[i]) /\ c_out.value[i] = c_raw[i]
          /\ c_raw[j] > One /\ c_out.value[j] = One

\* C24: only_affects_stable gating. When contagion applies and
\* only_affects_stable is set, a non-source agent that is not Stable
\* (Loaded, Recovered, or HelpSeeking/Rest outside the source set) receives
\* clamp01 of its raw value and a Stable non-source agent is reduced by the
\* influence.
C24_StableOnlyGate ==
    (ContagionApplied /\ c_cfg.only_affects_stable)
      => /\ c_out.raises = None
         /\ \A i \in DOMAIN c_raw :
               ~IsSource(i)
                 => c_out.value[i] =
                      IF c_states[i] # STABLE THEN _clamp01(c_raw[i])
                      ELSE _clamp01(c_raw[i] - CallInfluence)

\* a gated call in which a Rest agent outside the source set keeps its
\* in-range value
C24_Witness ==
    /\ ContagionApplied
    /\ c_cfg.only_affects_stable
    /\ CallInfluence > 0
    /\ \E i \in DOMAIN c_raw :
          /\ c_states[i] = REST
          /\ ~IsSource(i)
          /\ InUnit(c_raw[i])
          /\ c_out.value[i] = c_raw[i]

\* ------------------------------------ shorthands for whole-call claims
\* the whole calls have been made
MultiRan == r_out.raises # "Pending"
SingleRan == r_single_out.raises # "Pending"
\* the sequence count differs from the agent count
CountMismatch == Len(r_sequences) # Len(r_agents)
\* two of the sequences differ in length
UnequalSequences ==
    \E i, j \in DOMAIN r_sequences : Len(r_sequences[i]) # Len(r_sequences[j])

\* C25: run_multi_agent_simulation fails with a validation error, with no
\* step executed and no step record produced, when the number of sequences
\* differs from the number of agents or the sequences differ in length.
C25_ShapeValidation ==
    (MultiRan /\ (CountMismatch \/ UnequalSequences))
      => /\ r_out.raises = "ValueError"
         /\ "value" \notin DOMAIN r_out

\* a call with more sequences than agents, all of one positive length, is
\* refused
C25_Witness ==
    /\ MultiRan
    /\ Len(r_agents) >= 1
    /\ Len(r_sequences) > Len(r_agents)
    /\ ~UnequalSequences
    /\ Len(r_sequences[1]) >= 1
    /\ r_out.raises = "ValueError"

\* C26: single-agent specialization. run_simulation on a start status and a
\* sample sequence yields at every step the state, the stability and the
\* first-event-or-none of agent 0 of run_multi_agent_simulation run on that
\* single agent and sequence without contagion.
C26_SingleAgentSpecialization ==
    (MultiRan /\ SingleRan /\ Len(r_agents) = 1 /\ Len(r_sequences) = 1
       /\ r_contagion = <<>>)
      => /\ r_out.raises = None
         /\ r_single_out.raises = None
         /\ Len(r_single_out.value) = Len(r_sequences[1])
         /\ Len(r_out.value) = Len(r_sequences[1])
         /\ \A t \in DOMAIN r_single_out.value :
               /\ r_single_out.value[t].status.state
                    = r_out.value[t].agents[1].state
               /\ r_single_out.value[t].status.stability
                    = r_out.value[t].agents[1].stability
               /\ StepEvent(r_single_out.value[t])
                    = r_out.value[t].agent_events[1]

\* both drivers ran on a sequence whose first sample changed the state and
\* whose second sample raised an event
C26_Witness ==
    /\ MultiRan
    /\ SingleRan
    /\ Len(r_sequences[1]) >= 2
    /\ r_single_out.value[1].status.state # r_agents[1].state
    /\ StepEvent(r_single_out.value[2]) # None
    /\ r_out.value[2].agent_events[1] = StepEvent(r_single_out.value[2])

\* C27: mode gate. enforce_mode(Visual, status, thresholds) returns
\* Headless with EXIT_VISUAL_TO_HEADLESS exactly when the state is not
\* Stable or the stability is below visual_min_stable, and Visual with no
\* event otherwise (stability equal to visual_min_stable is allowed);
\* enforce_mode(Headless, ...) returns Headless with no event.
C27_ModeGate ==
    g_out.raises # "Pending"
      => /\ g_out.raises = None
         /\ g_out.value =
              IF g_mode = VISUAL
              THEN IF g_status.state # STABLE
                      \/ g_status.stability < thresholds.visual_min_stable
                   THEN [mode |-> HEADLESS, event |-> EXIT_VISUAL_TO_HEADLESS]
                   ELSE [mode |-> VISUAL, event |-> None]
              ELSE [mode |-> HEADLESS, event |-> None]

\* Visual requested for a Stable agent exactly at a positive
\* visual_min_stable, and granted
C27_Witness ==
    /\ g_out.raises = None
    /\ g_mode = VISUAL
    /\ g_status.state = STABLE
    /\ thresholds.visual_min_stable > 0
    /\ g_status.stability = thresholds.visual_min_stable
    /\ g_out.value.mode = VISUAL
    /\ g_out.value.event = None

\* the conditions under which Thresholds may be constructed
HelpPairDisabled == t_fields.help_enter < 0 /\ t_fields.help_exit < 0
HelpPairValid ==
    /\ InUnit(t_fields.help_enter)
    /\ InUnit(t_fields.help_exit)
    /\ t_fields.help_enter < t_fields.help_exit
RestPairValid ==
    /\ InUnit(t_fields.rest_enter)
    /\ InUnit(t_fields.rest_exit)
    /\ t_fields.rest_enter < t_fields.rest_exit

\* C28: Thresholds construction succeeds iff visual_min_stable is in [0,1],
\* rest_enter and rest_exit are in [0,1] with rest_enter < rest_exit, and
\* help_enter and help_exit are either both negative or both in [0,1] with
\* help_enter < help_exit; otherwise it fails and no Thresholds value
\* exists.
C28_ConstructionIff ==
    t_out.raises # "Pending"
      => IF /\ InUnit(t_fields.visual_min_stable)
            /\ RestPairValid
            /\ (HelpPairDisabled \/ HelpPairValid)
         THEN /\ t_out.raises = None
              /\ t_out.value = t_fields
         ELSE /\ t_out.raises = "ValueError"
              /\ "value" \notin DOMAIN t_out

\* a construction with only help_enter negative and every other field
\* acceptable is refused
C28_Witness ==
    /\ t_out.raises = "ValueError"
    /\ t_fields.help_enter < 0
    /\ InUnit(t_fields.help_exit)
    /\ RestPairValid
    /\ InUnit(t_fields.visual_min_stable)

\* C29: every agent status in every step record of run_simulation and of
\* run_multi_agent_simulation has its stability in [0,1], whatever the
\* samples.
C29_OutputsClamped ==
    /\ \A n \in DOMAIN steps : InUnit(steps[n].status.stability)
    /\ \A n \in DOMAIN multi_steps :
          \A i \in DOMAIN multi_steps[n].agents :
              InUnit(multi_steps[n].agents[i].stability)

\* the identifier is a non-empty str
NamedStr == f_name # <<>> /\ f_name[1] # <<>>

\* C30: every name-keyed factory fails on an unknown identifier: make_policy
\* on a name outside none/null/off/trace/debug, get_profile on an id outside
\* fish/bird/ant_fast/ant_slow and get_policy on a variant outside its known
\* variant names each raise an error and return no object.
C30_UnknownNameFails ==
    /\ (f_policy_out.raises # "Pending" /\ NamedStr
          /\ lower(f_name[1])
               \notin {str_none, str_null, str_off, str_trace, str_debug})
         => /\ f_policy_out.raises = "ValueError"
            /\ "value" \notin DOMAIN f_policy_out
    /\ (f_profile_out.raises # "Pending" /\ NamedStr
          /\ lower(strip(f_name[1]))
               \notin {str_fish, str_bird, str_ant_fast, str_ant_slow})
         => /\ f_profile_out.raises = "ValueError"
            /\ "value" \notin DOMAIN f_profile_out
    /\ (f_variant_out.raises # "Pending" /\ NamedStr
          /\ upper(strip(f_name[1]))
               \notin {str_BASE, str_B1_NO_TRANSITION, str_B2_MORE_PARK,
                       str_B3_FISH_NO_REST, str_P1_REST_SCARCITY,
                       str_P2A_SPARROW_ANT_ENGINE, str_P2B_FANTAIL_ANT_ENGINE})
         => /\ f_variant_out.raises = "ValueError"
            /\ "value" \notin DOMAIN f_variant_out

\* C31 as stated: whenever next_agent_status returns no event, the returned
\* state equals the input state.
C31_NoEventKeepsState ==
    (Called /\ result.events = <<>>) => OutState = InState

\* C31: events track state changes except on the Loaded gate. Whenever
\* next_agent_status returns no event, either the returned state equals the
\* input state, or the input was Loaded with stability >= visual_min_stable
\* and the returned state is Stable, which is the one silent state change.
C31_NoEventKeepsStateOrLoads ==
    (Called /\ result.events = <<>>)
      => \/ OutState = InState
         \/ /\ InState = LOADED
            /\ InX >= thresholds.visual_min_stable
            /\ OutState = STABLE

\* a Loaded agent became Stable and the call reported no event
C31_Witness ==
    /\ Called
    /\ InState = LOADED
    /\ OutState = STABLE
    /\ result.events = <<>>

\* C34: sticky states have only their own exits, for HELP enabled or
\* disabled: the successor of HelpSeeking is HelpSeeking or Recovered, and
\* the successor of Rest is Rest, Recovered or HelpSeeking.
C34_StickyExits ==
    /\ (Called /\ InState = HELP_SEEKING)
         => OutState \in {HELP_SEEKING, RECOVERED}
    /\ (Called /\ InState = REST)
         => OutState \in {REST, RECOVERED, HELP_SEEKING}

\* the number of steps of the run whose state differs from the state before
StateChanges ==
    Cardinality({n \in DOMAIN steps :
        steps[n].status.state
            # (IF n = 1 THEN start.state ELSE steps[n - 1].status.state)})

\* C33: no boundary oscillation. Under a constant sample value in [0,1],
\* for every valid Thresholds and start state, the state reached after at
\* most 3 applications of next_agent_status never changes again and no
\* event is emitted after the third application.
C33_SettlesWithinThree ==
    \A n \in DOMAIN steps :
        n > 3 => /\ steps[n].status.state = steps[3].status.state
                 /\ steps[n].events = <<>>

\* a full run on a sample equal to a threshold that changed state twice
\* and then stayed
C33_Witness ==
    /\ Len(steps) = SettleSteps
    /\ StateChanges = 2
    /\ stabilities[1] \in {thresholds.help_exit, thresholds.rest_exit,
                           thresholds.visual_min_stable}
    /\ steps[SettleSteps].status.state = steps[2].status.state

\* the event tags of the HELP state
HelpEvents == {ENTER_HELP, EXIT_HELP}

\* C35: with HELP disabled (help_enter and help_exit both negative), in a run
\* of run_simulation or of run_multi_agent_simulation whose agents do not
\* start in HelpSeeking, no agent is ever in HelpSeeking and neither
\* ENTER_HELP nor EXIT_HELP is emitted, whatever the samples (0 and negative
\* samples included).
C35_DisabledHelpNeverEntered ==
    (thresholds.help_enter < 0 /\ thresholds.help_exit < 0
       /\ \A i \in DOMAIN r_agents : r_agents[i].state # HELP_SEEKING)
      => /\ (SingleRan /\ r_single_out.raises = None)
              => \A t \in DOMAIN r_single_out.value :
                    /\ r_single_out.value[t].status.state # HELP_SEEKING
                    /\ \A n \in DOMAIN r_single_out.value[t].events :
                          r_single_out.value[t].events[n] \notin HelpEvents
         /\ (MultiRan /\ r_out.raises = None)
              => \A t \in DOMAIN r_out.value :
                    \A i \in DOMAIN r_out.value[t].agents :
                       /\ r_out.value[t].agents[i].state # HELP_SEEKING
                       /\ r_out.value[t].agent_events[i] \notin HelpEvents

\* both drivers ran under disabled HELP on a sequence holding a sample of 0
\* and a sample equal to the negative sentinel, from a start state other
\* than HelpSeeking
C35_Witness ==
    /\ thresholds.help_enter < 0
    /\ thresholds.help_exit < 0
    /\ r_agents[1].state # HELP_SEEKING
    /\ SingleRan
    /\ MultiRan
    /\ Len(r_sequences[1]) = 2
    /\ \E t \in DOMAIN r_sequences[1] : r_sequences[1][t] = 0
    /\ \E t \in DOMAIN r_sequences[1] :
          r_sequences[1][t] <= thresholds.help_enter
    /\ Len(r_out.value) = 2
    /\ Len(r_single_out.value) = 2

\* the transition of agent i in step t computed from that agent alone: its
\* own state before the step, its own raw sample and the thresholds
OwnTransition(t, i) ==
    next_agent_status(AgentStatus(PreAgents(t)[i].state, RawOf(t, i)),
                      thresholds)

\* C32: agent independence. Without contagion (absent or disabled) the
\* status and event recorded for agent i in each step are those of
\* next_agent_status on agent i's own previous state and own sample, so
\* agent i's sequence is a function of its initial status, its samples and
\* the thresholds only, whatever the other agents, the order of the agents
\* and the starting environment.
C32_AgentIndependence ==
    ~ContagionOn =>
      \A t \in MultiSteps : \A i \in AgentIds :
          /\ multi_steps[t].agents[i] = OwnTransition(t, i).next_status
          /\ multi_steps[t].agent_events[i] = Event(OwnTransition(t, i))

\* a run without contagion in which the two agents start in different
\* states, get different samples and end a step in different states with
\* different events
C32_Witness ==
    /\ ~ContagionOn
    /\ Len(multi_steps) = 2
    /\ agents[1].state # agents[2].state
    /\ \E t \in MultiSteps :
          /\ RawOf(t, 1) # RawOf(t, 2)
          /\ multi_steps[t].agents[1].state # multi_steps[t].agents[2].state
          /\ multi_steps[t].agent_events[1] # multi_steps[t].agent_events[2]
          /\ multi_steps[t].agent_events[2] # None

\* the steps that carry an environment event
EnvEventSteps == {t \in MultiSteps : multi_steps[t].env_event # None}

ScaledBy(t, i, env) ==
    _clamp01(RawOf(t, i) - InfluenceOf(SourcesBefore(t), env))

\* C37: the contagion scale of step t is that of the environment as it
\* stood when the step began (the start environment for the first step),
\* not that of the environment the step records: when a step changes the
\* environment, its affected agents are still lowered by the influence of
\* the old environment, and the new environment scales the next step.
C37_ScaleFromPreviousEnvironment ==
    ContagionOn =>
      \A t \in MultiSteps : \A i \in AgentIds :
          (SourcesBefore(t) > 0 /\ Affected(t, i)
             /\ multi_steps[t].environment # PreEnv(t))
            => /\ multi_steps[t].agents[i].stability = ScaledBy(t, i, PreEnv(t))
               /\ ScaledBy(t, i, multi_steps[t].environment)
                      # ScaledBy(t, i, PreEnv(t))
                    => multi_steps[t].agents[i].stability
                         # ScaledBy(t, i, multi_steps[t].environment)
               /\ (t + 1 \in MultiSteps /\ SourcesBefore(t + 1) > 0
                      /\ Affected(t + 1, i))
                    => multi_steps[t + 1].agents[i].stability
                         = ScaledBy(t + 1, i, multi_steps[t].environment)

\* a run from Dense with one source: step 1 downshifts and still applies the
\* Dense influence, step 2 applies the smaller Calm influence
C37_Witness ==
    /\ ContagionOn
    /\ start_environment = DENSE
    /\ Len(multi_steps) = 2
    /\ multi_steps[1].environment = CALM
    /\ \E i \in AgentIds :
          /\ SourcesBefore(1) = 1
          /\ SourcesBefore(2) = 1
          /\ Affected(1, i)
          /\ Affected(2, i)
          /\ RawOf(1, i) = RawOf(2, i)
          /\ multi_steps[1].agents[i].stability
               = RawOf(1, i) - InfluenceOf(1, DENSE)
          /\ multi_steps[2].agents[i].stability
               = RawOf(2, i) - InfluenceOf(1, CALM)
          /\ InfluenceOf(1, CALM) < InfluenceOf(1, DENSE)

\* apply_rules has been called; the statuses it returned, as a list
RulesRan == r_rules_out.raises # "Pending"
RulesStatuses ==
    IF r_rules_out.single_in
    THEN <<r_rules_out.value[1]>>
    ELSE r_rules_out.value[1]
RulesEnv == r_rules_out.value[2]

\* C38: apply_rules agrees with one step of run_multi_agent_simulation
\* without contagion. On the same statuses, environment and thresholds it
\* returns the step's next statuses and the step's next environment; it
\* moves Dense to Calm only when some post-transition state is HelpSeeking
\* or Rest, and Calm to Dense exactly when every post-transition state is
\* Stable.
C38_ApplyRulesAgreesWithStep ==
    (RulesRan /\ MultiRan /\ r_out.raises = None)
      => /\ RulesStatuses = r_out.value[1].agents
         /\ RulesEnv = r_out.value[1].environment
         /\ (r_env = DENSE /\ RulesEnv = CALM)
              => \E i \in DOMAIN RulesStatuses :
                    RulesStatuses[i].state \in {HELP_SEEKING, REST}
         /\ (r_env = CALM)
              => (RulesEnv = DENSE
                    <=> \A i \in DOMAIN RulesStatuses :
                           RulesStatuses[i].state = STABLE)

\* the states the v1 contagion treats as unstable, and their number in the
\* call
V1Unstable == {HELP_SEEKING, REST}
V1UnstableCount == Cardinality({i \in DOMAIN c_states : c_states[i] \in V1Unstable})
\* delta * multiplier of the call: dense_multiplier in Dense, calm_multiplier
\* otherwise
V1Shift ==
    (c_cfg_v1.delta * (IF c_env = DENSE THEN c_cfg_v1.dense_multiplier
                       ELSE c_cfg_v1.calm_multiplier)) \div One
\* x brought into [clamp_min, clamp_max] of the call's config
V1Clamped(x) ==
    IF x < c_cfg_v1.clamp_min THEN c_cfg_v1.clamp_min
    ELSE IF x > c_cfg_v1.clamp_max THEN c_cfg_v1.clamp_max
    ELSE x

\* C39: the v1 contagion. With contagion enabled and at least one agent
\* HelpSeeking or Rest, every agent in another state gets
\* clamp(raw - delta * multiplier, clamp_min, clamp_max), with
\* dense_multiplier in Dense and calm_multiplier otherwise, and every
\* HelpSeeking or Rest agent gets clamp(raw, clamp_min, clamp_max), however
\* many agents are unstable.
C39_V1Shift ==
    (c_called_v1 /\ c_cfg_v1.enabled /\ V1UnstableCount > 0)
      => /\ Len(c_out_v1) = ZipLen(c_raw, c_states)
         /\ \A i \in DOMAIN c_out_v1 :
               c_out_v1[i] = IF c_states[i] \in V1Unstable
                             THEN V1Clamped(c_raw[i])
                             ELSE V1Clamped(c_raw[i] - V1Shift)

\* a Dense call with two unstable agents next to a Loaded one that is
\* lowered by exactly delta * dense_multiplier, one unstable agent being
\* clamped to clamp_min
C39_Witness ==
    /\ c_called_v1
    /\ c_cfg_v1 = NarrowContagionV1
    /\ c_env = DENSE
    /\ V1UnstableCount = 2
    /\ \E i \in DOMAIN c_out_v1 :
          /\ c_states[i] = LOADED
          /\ c_out_v1[i] = c_raw[i] - 100
    /\ \E i \in DOMAIN c_out_v1 :
          /\ c_states[i] \in V1Unstable
          /\ c_raw[i] < 200
          /\ c_out_v1[i] = 200

====
